---- MODULE Spec2Model ----
(***************************************************************************)
(* Model of the merge engine of the preprocessor (src/src/git.rs): the     *)
(* typestate run Fresh::new -> clone_src -> fetch_upstream ->              *)
(* {changed_files, merge}, over git objects represented by their content.  *)
(*                                                                         *)
(* Object ids are content-derived, so an object is represented by its      *)
(* content: a blob by a number, a tree by the set of its leaf entries      *)
(* (full path, file mode, id), a commit by the record of its tree, parents *)
(* and message.  Two trees are the same object iff the sets are equal.     *)
(***************************************************************************)
EXTENDS Integers, Sequences, FiniteSets, TLC

\* ------------------------------------------------------------------ bounds

\* Blob object ids are 1..MaxId.
MaxId == 2
\* The incoming (other-family) tree has at most MaxIncoming leaf entries.
MaxIncoming == 2
\* merge() and changed_files() take &self: at most MaxCalls calls are explored.
MaxCalls == 3

\* ------------------------------------------------------------ git objects

None == "None"

\* crate-root constant used as super::CONTENT_DIR.
CONTENT_DIR == "content"

\* A tree entry name that is not valid UTF-8: TreeEntry::name() gives None.
NonUtf8 == "<non-utf8>"

\* Entry names of the model, in the byte order git stores tree entries in.
NameOrder == <<"a", "b", "c", CONTENT_DIR, "other", NonUtf8>>

\* git2::FileMode, by its octal value.
FileModeBlob == "100644"
FileModeBlobExecutable == "100755"
FileModeTree == "040000"
FileModeCommit == "160000"

\* git2::ObjectType of an entry with the given file mode.
KindOf(mode) ==
    CASE mode = FileModeTree -> "Tree"
      [] mode = FileModeCommit -> "Commit"
      [] OTHER -> "Blob"

\* The full paths (sequences of names) at which the model places leaf entries.
LeafPaths ==
    { <<CONTENT_DIR>>,
      <<CONTENT_DIR, "a">>,
      <<CONTENT_DIR, "a", "b">>,
      <<CONTENT_DIR, "c">>,
      <<CONTENT_DIR, NonUtf8>>,
      <<"other", "a">> }

IsPrefix(p, q) == Len(p) <= Len(q) /\ SubSeq(q, 1, Len(p)) = p
IsProperPrefix(p, q) == Len(p) < Len(q) /\ IsPrefix(p, q)

\* A set of leaf entries is a tree when no path occurs twice and no leaf lies
\* beneath another leaf (a name is a file or a directory, never both).
ValidTree(t) ==
    \A e1, e2 \in t :
        /\ (e1.path = e2.path => e1 = e2)
        /\ ~IsProperPrefix(e1.path, e2.path)

\* The subtree of t at directory path a, as the set of its leaves.
SubTree(t, a) == { e \in t : IsProperPrefix(a, e.path) }

\* Tree::get_path: the entry at exactly that path, a leaf or a directory.
get_path(tree, path) ==
    IF \E e \in tree : e.path = path
    THEN LET e == CHOOSE x \in tree : x.path = path
         IN  [found |-> TRUE, filemode |-> e.mode, kind |-> KindOf(e.mode), id |-> e.id]
    ELSE IF SubTree(tree, path) # {}
    THEN [found |-> TRUE, filemode |-> FileModeTree, kind |-> "Tree",
          id |-> SubTree(tree, path)]
    ELSE [found |-> FALSE]

\* A name() that replaces what is not UTF-8 instead of giving None.
MutNameOfLossy(n) == n

\* TreeEntry::name(): None when the name is not UTF-8.
NameOf(n) == IF n = NonUtf8 THEN None ELSE n

\* The entry named n of the directory a of tree, as the walk hands it over.
EntryAt(tree, a, n) ==
    LET g == get_path(tree, a \o <<n>>)
    IN  [raw |-> n, name |-> NameOf(n), filemode |-> g.filemode, kind |-> g.kind, id |-> g.id]

HasChild(tree, a, n) == get_path(tree, a \o <<n>>).found

\* ------------------------------------------------------------------ errors

UpdateTreeError(what, path, detail) ==
    [error |-> "UpdateTree", what |-> what, path |-> path, detail |-> detail]
GitError(what) == [error |-> "Git", what |-> what]
Ok == [error |-> None]

\* ---------------------------------------------------------- check_conflict


\* check_conflict without the comparison of the object ids.
MutCheckConflictIgnoresId(master_tree, path, entry) ==
    LET original == get_path(master_tree, path)
    IN  IF ~original.found THEN Ok
        ELSE IF original.filemode # entry.filemode
             THEN UpdateTreeError("conflicting path", path, "filemode")
        ELSE IF original.kind # entry.kind
             THEN UpdateTreeError("conflicting path", path, "kind")
        ELSE Ok

check_conflict(master_tree, path, entry) ==
    LET original == get_path(master_tree, path)
    IN  IF ~original.found THEN Ok
        ELSE IF original.filemode # entry.filemode
             THEN UpdateTreeError("conflicting path", path, "filemode")
        ELSE IF original.kind # entry.kind
             THEN UpdateTreeError("conflicting path", path, "kind")
        ELSE IF original.id # entry.id
             THEN UpdateTreeError("conflicting path", path, "id")
        ELSE Ok

\* ------------------------------------------------------------ the tree walk

\* The parent path a handed to the callback is the '/'-terminated join of the
\* directory names, so a.starts_with("content/") is: the first name is content.
StartsWithPrefix(a) == Len(a) >= 1 /\ a[1] = CONTENT_DIR


\* The callback without its filter: nothing is skipped.
MutFilterSkipsNothing(a, b) == FALSE

\* Whether the callback returns Skip at once for entry b under parent path a.
FilterSkips(a, b) ==
    ~StartsWithPrefix(a) /\ (a # <<>> \/ b.name # CONTENT_DIR)

\* The closure passed to Tree::walk, for one entry: what it returns to the walk,
\* the upsert it records (<<>> for none), and the walk_error it sets.
WalkCallback(master_tree, a, b) ==
    IF FilterSkips(a, b)
    THEN [res |-> "Skip", upsert |-> <<>>, err |-> Ok]
    ELSE IF b.name = None
    THEN [res |-> "Abort", upsert |-> <<>>,
          err |-> UpdateTreeError("tree entry without name", a, "")]
    ELSE LET path == a \o <<b.name>>
         IN  IF b.kind = "Tree"
             THEN [res |-> "Ok", upsert |-> <<>>, err |-> Ok]
             ELSE IF b.kind # "Blob"
             THEN [res |-> "Abort", upsert |-> <<>>,
                   err |-> UpdateTreeError("unknown blob type", path, b.kind)]
             ELSE LET c == check_conflict(master_tree, path, b)
                  IN  IF c.error # None
                      THEN [res |-> "Abort", upsert |-> <<>>, err |-> c]
                      ELSE [res |-> "Ok",
                            upsert |-> <<[path |-> path, id |-> b.id,
                                          filemode |-> FileModeBlob]>>,
                            err |-> Ok]

\* Tree::walk in pre-order over directory a, from the i-th name on: the
\* callback's outcome for every entry reached, where a directory is entered
\* only when the callback returned Ok for it.  (The cut at Abort is below.)
RECURSIVE WalkDir(_, _, _, _)
WalkDir(other_tree, master_tree, a, i) ==
    IF i > Len(NameOrder) THEN <<>>
    ELSE LET n == NameOrder[i]
         IN  IF ~HasChild(other_tree, a, n)
             THEN WalkDir(other_tree, master_tree, a, i + 1)
             ELSE LET b == EntryAt(other_tree, a, n)
                      r == WalkCallback(master_tree, a, b)
                      below == IF r.res = "Ok" /\ b.kind = "Tree"
                               THEN WalkDir(other_tree, master_tree, a \o <<n>>, 1)
                               ELSE <<>>
                  IN  <<[a |-> a, entry |-> b, r |-> r]>> \o below
                          \o WalkDir(other_tree, master_tree, a, i + 1)

\* The walk stops at the first callback that returns Abort.
RECURSIVE UntilAbort(_)
UntilAbort(visits) ==
    IF visits = <<>> THEN <<>>
    ELSE IF Head(visits).r.res = "Abort" THEN <<Head(visits)>>
    ELSE <<Head(visits)>> \o UntilAbort(Tail(visits))

walk(other_tree, master_tree) == UntilAbort(WalkDir(other_tree, master_tree, <<>>, 1))

\* walk_error after the walk: the error of the aborting callback, if any.
walk_error(visits) ==
    IF visits # <<>> /\ visits[Len(visits)].r.res = "Abort"
    THEN visits[Len(visits)].r.err
    ELSE Ok


\* The upserts recorded under the entry's name instead of its full path.
RECURSIVE MutUpsertsByName(_)
MutUpsertsByName(visits) ==
    IF visits = <<>> THEN <<>>
    ELSE LET u == Head(visits).r.upsert
         IN  (IF u = <<>> THEN <<>>
              ELSE <<[u[1] EXCEPT !.path = <<u[1].path[Len(u[1].path)]>>]>>)
                 \o MutUpsertsByName(Tail(visits))

\* The upserts recorded in tree_builder, in walk order.
RECURSIVE Upserts(_)
Upserts(visits) ==
    IF visits = <<>> THEN <<>>
    ELSE Head(visits).r.upsert \o Upserts(Tail(visits))

\* -------------------------------------------- TreeUpdateBuilder::create_updated

\* One upsert applied to tree t: refused when a directory component of the path
\* is a non-directory in t, or when the entry it replaces is of another type.
ApplyUpsert(t, u) ==
    LET blocked == \E e \in t : IsProperPrefix(e.path, u.path)
        old == get_path(t, u.path)
    IN  IF blocked THEN [ok |-> FALSE, tree |-> t]
        ELSE IF old.found /\ old.kind # KindOf(u.filemode) THEN [ok |-> FALSE, tree |-> t]
        ELSE [ok |-> TRUE,
              tree |-> { e \in t : e.path # u.path }
                          \cup { [path |-> u.path, mode |-> u.filemode, id |-> u.id] }]

RECURSIVE create_updated(_, _)
create_updated(baseline, updates) ==
    IF updates = <<>> THEN [ok |-> TRUE, tree |-> baseline]
    ELSE LET r == ApplyUpsert(baseline, Head(updates))
         IN  IF ~r.ok THEN [ok |-> FALSE, tree |-> baseline]
             ELSE create_updated(r.tree, Tail(updates))

\* ------------------------------------------------------------------ inputs

\* A leaf entry.
Leaf(path, mode, id) == [path |-> path, mode |-> mode, id |-> id]

\* A commit object.
Commit(tree, parents, message) == [tree |-> tree, parents |-> parents, message |-> message]

\* Leaf entries a local (source) tree may hold: the plain blob 1 at a path with
\* a UTF-8 name, or the same blob executable.
LocalLeaves ==
    { Leaf(p, FileModeBlob, 1) : p \in LeafPaths \ {<<CONTENT_DIR, NonUtf8>>} }
        \cup { Leaf(<<CONTENT_DIR, "a">>, FileModeBlobExecutable, 1) }

\* Leaf entries an incoming tree may hold: a plain blob of any id anywhere, the
\* executable blob 1, and a gitlink (a submodule, an entry of kind Commit).
IncomingLeaves ==
    { Leaf(p, FileModeBlob, i) : p \in LeafPaths, i \in 1..MaxId }
        \cup { Leaf(<<CONTENT_DIR, n>>, FileModeBlobExecutable, 1) : n \in {"a", "c"} }
        \cup { Leaf(p, FileModeCommit, 1) :
                 p \in {<<CONTENT_DIR, "a">>, <<CONTENT_DIR, "c">>, <<"other", "a">>} }

\* All subsets of S with at most k elements.
RECURSIVE SubsetsUpTo(_, _)
SubsetsUpTo(S, k) ==
    IF k = 0 THEN {{}}
    ELSE LET smaller == SubsetsUpTo(S, k - 1)
         IN  smaller \cup { t \cup {e} : t \in smaller, e \in S }

LocalTrees == { t \in SUBSET LocalLeaves : ValidTree(t) }
IncomingTrees == { t \in SubsetsUpTo(IncomingLeaves, MaxIncoming) : ValidTree(t) }

\* The trees of the full run: a few local trees against one-entry incoming trees.
RunLocalTrees ==
    { {},
      { Leaf(<<CONTENT_DIR, "a">>, FileModeBlob, 1) },
      { Leaf(<<CONTENT_DIR, "a">>, FileModeBlobExecutable, 1),
        Leaf(<<"other", "a">>, FileModeBlob, 1) } }
RunIncomingTrees == { t \in IncomingTrees : Cardinality(t) <= 1 }

\* The commit both histories may start from.
BaseCommit == Commit({}, <<>>, "base")

\* The local head: one commit on top of the base.
LocalCommit(tree) == Commit(tree, <<BaseCommit>>, "local")

\* What the canonical remote of the source's own family may have as master: the
\* base (local is ahead), the local head itself, a commit diverged from the
\* base, or a history that shares nothing with the local one.
UpstreamChoices(local) ==
    { BaseCommit,
      local,
      Commit({ Leaf(<<CONTENT_DIR, "c">>, FileModeBlob, 1) }, <<BaseCommit>>, "upstream"),
      Commit({}, <<>>, "unrelated") }

\* master of the other family's canonical remote.
OtherCommit(tree) == Commit(tree, <<>>, "other")

\* What an earlier run may have left at build_path.
OldCommit == Commit({ Leaf(<<"other", "a">>, FileModeBlob, 1) }, <<>>, "old")

\* ------------------------------------------------------------------- state

VARIABLES
    src_repo,        \* the source repository at root_path (never written)
    remotes,         \* REPO_URLS: family -> master commit of its canonical remote
    working_repo,    \* the repository at build_path
    state,           \* which typestate object is alive
    src_repo_use,    \* field src_repo_use
    local_head,      \* field local_head (<<>> until set)
    upstream_head,   \* field upstream_head (<<>> until set)
    result,          \* what the last operation returned
    trace,           \* the operations performed so far, in order
    created,         \* the commits created by merge(), in order
    last_merge,      \* the trees the last merge() call worked on
    changed,         \* what the last changed_files() returned (<<>> or <<set>>)
    calls,           \* number of merge()/changed_files() calls so far
    lock,            \* the advisory lock on <cache root>/.lock: <<>> or <<holder>>
    pc,              \* where each process stands with its Cache
    arcs,            \* per process, the Cache values sharing its Arc<Inner>: how
                     \* many are alive and how many clone() calls made them
    cache_dirs,      \* the directories that exist under the cache root
    cache_repos,     \* what is in each of those directories, as a repository
    cache_log,       \* the Cache::repo calls made so far, in order
    cache_result,    \* what the last Cache::open returned
    disk,            \* what each directory holds under .git and CONTENT_DIR
    cwd,             \* the current directory of the process calling find_root
    current,         \* find_root's loop variable (<<>> for None)
    find_pc,         \* where find_root stands
    found,           \* what find_root returned
    text,            \* the text handed to an escaper
    escaped          \* which escaper ran, and its output

\* The state of the merge run and the state of the cache.
run_vars == <<src_repo, remotes, working_repo, state, src_repo_use, local_head,
              upstream_head, result, trace, created, last_merge, changed, calls>>
cache_vars == <<lock, pc, arcs, cache_dirs, cache_repos, cache_log, cache_result>>

tool_vars == <<disk, cwd, current, find_pc, found, text, escaped>>

vars == <<run_vars, cache_vars, tool_vars>>

Families == {"Eips", "Ercs"}

\* REPO_URLS iterates in enum order.
FamilyOrder == <<"Eips", "Ercs">>

\* ------------------------------------------------------------- check_dirty

\* crate-root constant used as super::BUILD_DIR.
BUILD_DIR == <<"b", "u", "i", "l", "d">>

\* str::trim_end_matches('/')
RECURSIVE trim_end_matches(_)
trim_end_matches(x) ==
    IF x # <<>> /\ x[Len(x)] = "/" THEN trim_end_matches(SubSeq(x, 1, Len(x) - 1)) ELSE x

\* str::ends_with
ends_with(x, suffix) ==
    Len(suffix) <= Len(x) /\ SubSeq(x, Len(x) - Len(suffix) + 1, Len(x)) = suffix

\* A status entry: the bytes of its path and whether they are UTF-8.
StatusEntry(utf8, path) == [utf8 |-> utf8, path |-> path]

\* StatusEntry::path(): the path as a str, None when it is not UTF-8.
path_of(x) == IF x.utf8 THEN <<x.path>> ELSE <<>>

\* check_dirty: Dirty when a status entry survives the BUILD_DIR filter
\* (an entry without a str path does not survive: unwrap_or(false)).
check_dirty(status) ==
    LET statuses == { x \in status :
                        IF path_of(x) = <<>> THEN FALSE
                        ELSE ~ends_with(trim_end_matches(path_of(x)[1]), BUILD_DIR) }
    IN  IF statuses # {} THEN [error |-> "Dirty"] ELSE Ok

\* ----------------------------------------------------------------- identify


\* identify with the two families taken for each other.
MutIdentifySwapped(eip, erc) ==
    IF eip /\ ~erc THEN [error |-> None, use |-> "Ercs"]
    ELSE IF ~eip /\ erc THEN [error |-> None, use |-> "Eips"]
    ELSE [error |-> "Identify", eips |-> eip, ercs |-> erc]

\* RepositoryUse::identify, from the two revparse results.
identify(eip, erc) ==
    IF eip /\ ~erc THEN [error |-> None, use |-> "Eips"]
    ELSE IF ~eip /\ erc THEN [error |-> None, use |-> "Ercs"]
    ELSE [error |-> "Identify", eips |-> eip, ercs |-> erc]


\* other_repos without the filter: every family, the own one included.
MutOtherReposAll(use) == FamilyOrder

\* RepositoryUse::other_repos: the other families, in REPO_URLS order.
other_repos(use) == SelectSeq(FamilyOrder, LAMBDA k : k # use)

\* ------------------------------------------------- git2 repository operations

NoHead == [symbolic |-> TRUE, at |-> <<>>]

\* Repository::init: an empty repository with HEAD on the unborn master.
InitRepository ==
    [exists |-> "repo", opened |-> TRUE, HEAD |-> NoHead,
     branches |-> [master |-> <<>>, master_other |-> <<>>],
     FETCH_HEAD |-> <<>>, odb |-> {}, workdir |-> <<>>]

\* The commit HEAD resolves to (<<>> when unborn).
HeadCommit(repo) ==
    IF repo.HEAD.symbolic THEN repo.branches.master ELSE repo.HEAD.at


\* A fetch that also leaves HEAD detached at what it fetched.
MutFetchMovesHead(repo, commit, dst) ==
    [repo EXCEPT !.odb = @ \cup {commit}, !.FETCH_HEAD = <<commit>>,
                 !.HEAD = [symbolic |-> FALSE, at |-> <<commit>>]]

\* fetch() whose destination refspec names master itself.
MutFetchIntoMaster(repo, commit, dst) ==
    LET got == [repo EXCEPT !.odb = @ \cup {commit}, !.FETCH_HEAD = <<commit>>]
    IN  IF dst = "master_other"
        THEN [got EXCEPT !.branches.master = <<commit>>]
        ELSE got

\* fetch(): the remote's objects arrive, FETCH_HEAD names the fetched commit and
\* a refspec with a destination writes that local branch.
fetch(repo, commit, dst) ==
    LET got == [repo EXCEPT !.odb = @ \cup {commit}, !.FETCH_HEAD = <<commit>>]
    IN  IF dst = "master_other"
        THEN [got EXCEPT !.branches.master_other = <<commit>>]
        ELSE got

set_head_detached(repo, commit) ==
    [repo EXCEPT !.HEAD = [symbolic |-> FALSE, at |-> <<commit>>]]

\* Repository::branch without force: a master that exists is left alone.
MutBranchMasterNoForce(repo, commit) ==
    IF repo.branches.master # <<>> THEN repo ELSE [repo EXCEPT !.branches.master = <<commit>>]

\* Repository::branch("master", commit, force = true)
branch_master(repo, commit) == [repo EXCEPT !.branches.master = <<commit>>]

\* Repository::set_head("refs/heads/master")
set_head_master(repo) == [repo EXCEPT !.HEAD = NoHead]

\* Repository::checkout_head with force: the working tree becomes HEAD's tree.
checkout_head(repo) ==
    LET h == HeadCommit(repo)
    IN  [repo EXCEPT !.workdir = IF h = <<>> THEN <<>> ELSE <<h[1].tree>>]


\* A commit that moves HEAD without comparing its tip with the first parent.
MutCommitNoTipCheck(repo, tree, parents, message) ==
    LET new == Commit(tree, parents, message)
    IN  [ok |-> TRUE, commit |-> new,
         repo |-> IF repo.HEAD.symbolic
                  THEN [repo EXCEPT !.odb = @ \cup {new}, !.branches.master = <<new>>]
                  ELSE [repo EXCEPT !.odb = @ \cup {new}, !.HEAD.at = <<new>>]]

\* Repository::commit(Some("HEAD"), .., tree, parents): refused unless the
\* current tip of HEAD is the first parent; writes the commit and moves HEAD
\* (the branch HEAD names, or HEAD itself when detached).
commit_on_head(repo, tree, parents, message) ==
    LET tip == HeadCommit(repo)
        new == Commit(tree, parents, message)
    IN  IF tip # <<>> /\ tip # <<parents[1]>>
        THEN [ok |-> FALSE, repo |-> repo, commit |-> new]
        ELSE [ok |-> TRUE, commit |-> new,
              repo |-> IF repo.HEAD.symbolic
                       THEN [repo EXCEPT !.odb = @ \cup {new}, !.branches.master = <<new>>]
                       ELSE [repo EXCEPT !.odb = @ \cup {new}, !.HEAD.at = <<new>>]]

\* A deletion that reports success and leaves the branch where it is.
MutDeleteKeepsBranch(repo) == [ok |-> TRUE, repo |-> repo]

\* find_branch("master-other").delete()
delete_master_other(repo) ==
    IF repo.branches.master_other = <<>>
    THEN [ok |-> FALSE, repo |-> repo]
    ELSE [ok |-> TRUE, repo |-> [repo EXCEPT !.branches.master_other = <<>>]]

\* An open_or_init that initialises without trying to open.
MutOpenOrInitAlwaysInits(repo) == [err |-> Ok, repo |-> InitRepository]

\* open_or_init: open what is at build_path, initialise when nothing is there.
open_or_init(repo) ==
    CASE repo.exists = "repo" -> [err |-> Ok, repo |-> [repo EXCEPT !.opened = TRUE]]
      [] repo.exists = "absent" -> [err |-> Ok, repo |-> InitRepository]
      [] OTHER -> [err |-> GitError("open repo"), repo |-> repo]

\* Commits reachable from c, c included.
RECURSIVE Ancestors(_)
Ancestors(c) ==
    {c} \cup UNION { Ancestors(c.parents[i]) : i \in 1..Len(c.parents) }

\* A merge base that is simply the second commit, so that the diff compares
\* the two heads with each other.
MutMergeBaseIsSecond(one, two) == <<two>>

\* Repository::merge_base: a common ancestor no other common ancestor descends
\* from (<<>> when the histories share nothing).
merge_base(one, two) ==
    LET common == Ancestors(one) \cap Ancestors(two)
        best == { c \in common : \A d \in common : d = c \/ c \notin Ancestors(d) }
    IN  IF best = {} THEN <<>> ELSE <<CHOOSE c \in best : TRUE>>

\* diff_tree_to_tree(old, new): the paths of the deltas.
diff_tree_to_tree(old, new) ==
    { e.path : e \in (old \ new) \cup (new \ old) }

\* ------------------------------------------------------------- Fresh::new


\* A step whose error leaves the consumed typestate usable.
MutNextStateSurvivesError(err, produced) ==
    IF err.error = None THEN produced ELSE "Fresh"

\* The typestate a consuming step leaves behind: its result, or nothing.
NextState(err, produced) == IF err.error = None THEN produced ELSE "Failed"


\* Fresh::new opening the build path before it checks the source.
MutFreshNewOpensFirst(src, at_build_path) ==
    LET dirty == check_dirty(src.status)
        id == identify(src.eip, src.erc)
        opened == open_or_init(at_build_path)
    IN  IF opened.err.error # None
        THEN [err |-> opened.err, repo |-> opened.repo, use |-> None,
              did |-> <<"open_or_init">>]
        ELSE IF dirty.error # None
        THEN [err |-> dirty, repo |-> opened.repo, use |-> None,
              did |-> <<"open_or_init", "check_dirty">>]
        ELSE IF id.error # None
        THEN [err |-> id, repo |-> opened.repo, use |-> None,
              did |-> <<"open_or_init", "check_dirty", "identify">>]
        ELSE [err |-> Ok, repo |-> opened.repo, use |-> id.use,
              did |-> <<"open_or_init", "check_dirty", "identify">>]

\* Fresh::new on the source repository src and what is at build_path: the error
\* it returns, the repository at build_path afterwards, the family identified
\* and the calls it made, in order.
Fresh_new(src, at_build_path) ==
    LET dirty == check_dirty(src.status)
        id == identify(src.eip, src.erc)
        opened == open_or_init(at_build_path)
    IN  IF dirty.error # None
        THEN [err |-> dirty, repo |-> at_build_path, use |-> None,
              did |-> <<"check_dirty">>]
        ELSE IF id.error # None
        THEN [err |-> id, repo |-> at_build_path, use |-> None,
              did |-> <<"check_dirty", "identify">>]
        ELSE [err |-> opened.err, repo |-> opened.repo, use |-> id.use,
              did |-> <<"check_dirty", "identify", "open_or_init">>]

FreshNew ==
    /\ state = "Start"
    /\ LET r == Fresh_new(src_repo, working_repo)
       IN  /\ result' = [op |-> "new", err |-> r.err]
           /\ trace' = trace \o <<"new">> \o r.did
           /\ state' = NextState(r.err, "Fresh")
           /\ working_repo' = r.repo
           /\ src_repo_use' = r.use
    /\ UNCHANGED <<src_repo, remotes, local_head, upstream_head, created, last_merge,
                   changed, calls>>
    /\ UNCHANGED <<cache_vars, tool_vars>>

\* ---------------------------------------------------------- Fresh::clone_src

\* A working repository that never reports a submodule.
MutSubmodulesNone(src) == {}

\* Repository::submodules() on the working repository after the checkout of
\* the source's head: the submodules that head has.
submodules(src) == IF src.submodules THEN {"sub"} ELSE {}

CloneSrc ==
    /\ state = "Fresh"
    /\ \E net_ok \in BOOLEAN :
        IF ~net_ok
        THEN /\ result' = [op |-> "clone_src", err |-> GitError("fetching repo")]
             /\ state' = NextState(GitError("fetching repo"), "SourceOnly")
             /\ UNCHANGED <<working_repo, local_head>>
        ELSE LET master == src_repo.head
                 fetched == fetch(working_repo, master, "")
                 detached == set_head_detached(fetched, master)
                 branched == branch_master(detached, master)
                 headed == set_head_master(branched)
                 checked == checkout_head(headed)
             IN  /\ working_repo' = checked
                 /\ IF submodules(src_repo) # {}
                    THEN /\ state' = "Panicked"
                         /\ result' = [op |-> "clone_src", err |-> [error |-> "panic"]]
                         /\ UNCHANGED local_head
                    ELSE /\ state' = NextState(Ok, "SourceOnly")
                         /\ result' = [op |-> "clone_src", err |-> Ok]
                         /\ local_head' = <<master>>
    /\ trace' = trace \o <<"clone_src", "fetch">>
    /\ UNCHANGED <<src_repo, remotes, src_repo_use, upstream_head, created, last_merge,
                   changed, calls>>
    /\ UNCHANGED <<cache_vars, tool_vars>>

\* --------------------------------------------------- SourceOnly::fetch_upstream

FetchUpstream ==
    /\ state = "SourceOnly"
    /\ \E net_ok \in BOOLEAN :
        IF ~net_ok
        THEN /\ result' = [op |-> "fetch_upstream", err |-> GitError("fetching repo")]
             /\ state' = NextState(GitError("fetching repo"), "SourceWithUpstream")
             /\ UNCHANGED <<working_repo, upstream_head>>
        ELSE LET latest_master == remotes[src_repo_use]
             IN  /\ working_repo' = fetch(working_repo, latest_master, "")
                 /\ upstream_head' = <<latest_master>>
                 /\ state' = NextState(Ok, "SourceWithUpstream")
                 /\ result' = [op |-> "fetch_upstream", err |-> Ok]
    /\ trace' = trace \o <<"fetch_upstream", "fetch">>
    /\ UNCHANGED <<src_repo, remotes, src_repo_use, local_head, created, last_merge,
                   changed, calls>>
    /\ UNCHANGED <<cache_vars, tool_vars>>

\* ------------------------------------------- SourceWithUpstream::changed_files

\* A local_head_tree that asks the repository for HEAD instead of using the
\* recorded id.
MutLocalHeadTreeOfHEAD(repo, head) == HeadCommit(repo)[1].tree

\* local_head_tree: the tree of the commit recorded as local_head, looked up in
\* the working repository.
local_head_tree(repo, head) == head.tree


ChangedFiles ==
    /\ state = "SourceWithUpstream"
    /\ calls < MaxCalls
    /\ LET base == merge_base(local_head[1], upstream_head[1])
       IN  IF base = <<>>
           THEN /\ result' = [op |-> "changed_files", err |-> GitError("merge base")]
                /\ changed' = <<>>
           ELSE /\ result' = [op |-> "changed_files", err |-> Ok]
                /\ changed' = <<diff_tree_to_tree(base[1].tree,
                                  local_head_tree(working_repo, local_head[1]))>>
    /\ trace' = Append(trace, "changed_files")
    /\ calls' = calls + 1
    /\ UNCHANGED <<src_repo, remotes, working_repo, state, src_repo_use, local_head,
                   upstream_head, created, last_merge>>
    /\ UNCHANGED <<cache_vars, tool_vars>>

\* ------------------------------------------------- SourceWithUpstream::merge

\* One iteration of the loop over the other families.  st carries the
\* repository, the loop variable local_head, the commits created so far, the
\* trees worked on and the error that ends merge() (Ok while it goes on).
MergeOne(st, master_tree, other_kind, net_ok) ==
    IF ~net_ok THEN [st EXCEPT !.err = GitError("fetching repo")]
    ELSE
    LET master_other == remotes[other_kind]
        fetched == fetch(st.repo, master_other, "master_other")
        other_tree == master_other.tree
        visits == walk(other_tree, master_tree)
        error == walk_error(visits)
        merged == create_updated(master_tree, Upserts(visits))
        seen == [called |-> TRUE, master_tree |-> master_tree, other_tree |-> <<other_tree>>,
                 visits |-> visits, merged_tree |-> <<>>, did |-> <<"fetch", "walk">>]
    IN  IF error.error # None
        THEN [st EXCEPT !.repo = fetched, !.log = seen, !.err = error]
        ELSE IF ~merged.ok
        THEN [st EXCEPT !.repo = fetched, !.err = GitError("build tree"),
                        !.log = [seen EXCEPT !.did = @ \o <<"create_updated">>]]
        ELSE
        LET built == [seen EXCEPT !.merged_tree = <<merged.tree>>,
                                  !.did = @ \o <<"create_updated", "commit">>]
            landed == [built EXCEPT !.did = @ \o <<"checkout_head", "find_branch">>]
            committed == commit_on_head(fetched, merged.tree,
                                        <<st.local_head, master_other>>,
                                        <<"Merge", other_kind>>)
            checked == checkout_head(committed.repo)
            deleted == delete_master_other(checked)
        IN  IF ~committed.ok
            THEN [st EXCEPT !.repo = fetched, !.log = built, !.err = GitError("committing")]
            ELSE IF ~deleted.ok
            THEN [st EXCEPT !.repo = checked, !.log = landed,
                            !.local_head = committed.commit,
                            !.made = Append(@, committed.commit),
                            !.err = GitError("find master-other")]
            ELSE [st EXCEPT !.repo = deleted.repo,
                            !.log = [landed EXCEPT !.did = @ \o <<"delete">>],
                            !.local_head = committed.commit,
                            !.made = Append(@, committed.commit)]

\* The loop: family after family, left at the first error.
RECURSIVE MergeLoop(_, _, _, _, _)
MergeLoop(st, master_tree, others, net, i) ==
    IF i > Len(others) \/ st.err.error # None THEN st
    ELSE MergeLoop(MergeOne(st, master_tree, others[i], net[i]), master_tree, others, net,
                   i + 1)

Merge ==
    /\ state = "SourceWithUpstream"
    /\ calls < MaxCalls
    /\ LET repo_use == src_repo_use
           master_tree == local_head_tree(working_repo, local_head[1])
           others == other_repos(repo_use)
       IN  \E net \in [1..Len(others) -> BOOLEAN] :
             LET start == [repo |-> working_repo, local_head |-> local_head[1],
                           made |-> <<>>, err |-> Ok,
                           log |-> [called |-> TRUE, master_tree |-> master_tree,
                                    other_tree |-> <<>>, visits |-> <<>>,
                                    merged_tree |-> <<>>, did |-> <<>>]]
                 end == MergeLoop(start, master_tree, others, net, 1)
             IN  /\ working_repo' = end.repo
                 /\ created' = created \o end.made
                 /\ last_merge' = end.log
                 /\ result' = [op |-> "merge", err |-> end.err]
    /\ trace' = Append(trace, "merge")
    /\ calls' = calls + 1
    /\ UNCHANGED <<src_repo, remotes, state, src_repo_use, local_head, upstream_head,
                   changed>>
    /\ UNCHANGED <<cache_vars, tool_vars>>

\* ------------------------------------------------------------ specifications

NoMerge == [called |-> FALSE, master_tree |-> {}, other_tree |-> <<>>, visits |-> <<>>,
            merged_tree |-> <<>>, did |-> <<>>]

\* Paths a status entry may carry.
BuildDirPath == BUILD_DIR \o <<"/">>
FileInBuildDir == BUILD_DIR \o <<"/", "a">>
FileOutside == <<"a", ".", "m", "d">>
FileNamedLikeBuildDir == <<"r", "e">> \o BUILD_DIR

\* Status lists of the source working copy: clean; the build directory
\* untracked; an untracked file; both; a changed file inside the build
\* directory; a file whose name ends like the build directory's; a file whose
\* name is not UTF-8.
StatusChoices ==
    { {},
      { StatusEntry(TRUE, BuildDirPath) },
      { StatusEntry(TRUE, FileOutside) },
      { StatusEntry(TRUE, BuildDirPath), StatusEntry(TRUE, FileOutside) },
      { StatusEntry(TRUE, FileInBuildDir) },
      { StatusEntry(TRUE, FileNamedLikeBuildDir) },
      { StatusEntry(FALSE, FileOutside) } }

\* What may be at build_path before the run: nothing, the repository of an
\* earlier run, or something that cannot be opened.
AbsentRepo == [InitRepository EXCEPT !.exists = "absent", !.opened = FALSE]
EarlierRepo ==
    [InitRepository EXCEPT !.opened = FALSE, !.branches.master = <<OldCommit>>,
                           !.odb = {OldCommit}, !.workdir = <<OldCommit.tree>>]
BrokenRepo == [AbsentRepo EXCEPT !.exists = "broken"]

\* The remotes, given which family the source belongs to.
Remotes(eip, upstream, other) ==
    IF eip THEN [Eips |-> upstream, Ercs |-> other] ELSE [Eips |-> other, Ercs |-> upstream]

\* ---------------------------------------------------------------- cache.rs

\* Processes that share the cache root.
NumProcs == 2
\* clone() calls a process makes on one open Cache.
MaxClones == 1
\* Cache::dir and Cache::repo calls followed in one run.
MaxCacheCalls == 2

Procs == 1..NumProcs

\* dirs.cache_dir() and the lock file in it.
CacheRoot == "cache"
LockPath == <<CacheRoot, ".lock">>

FsError(path) == [error |-> "Fs", path |-> path]

\* format!("{:x}", Sha3_256(key)): a fixed function of the key's bytes, taken
\* to give different keys different digests.
hash_text(key) == <<"sha3-256">> \o key

\* PathBuf::join
join(dir, name) == <<dir>> \o name

\* std::fs::create_dir: the error kind (None on success) and the directories
\* that exist afterwards.
create_dir(dirs, path, fs_ok) ==
    IF path \in dirs THEN [kind |-> "AlreadyExists", dirs |-> dirs]
    ELSE IF fs_ok THEN [kind |-> None, dirs |-> dirs \cup {path}]
    ELSE [kind |-> "Other", dirs |-> dirs]

\* A Cache::dir without the AlreadyExists arm.
MutCacheDirFailsOnExisting(dirs, key, fs_ok) ==
    LET path == join(CacheRoot, hash_text(key))
        made == create_dir(dirs, path, fs_ok)
    IN  IF made.kind = None
        THEN [err |-> Ok, path |-> <<path>>, dirs |-> made.dirs]
        ELSE [err |-> FsError(path), path |-> <<>>, dirs |-> made.dirs]

\* Cache::dir: the directory named by the key's digest, created unless it is
\* there already.
Cache_dir(dirs, key, fs_ok) ==
    LET path == join(CacheRoot, hash_text(key))
        made == create_dir(dirs, path, fs_ok)
    IN  IF made.kind \in {None, "AlreadyExists"}
        THEN [err |-> Ok, path |-> <<path>>, dirs |-> made.dirs]
        ELSE [err |-> FsError(path), path |-> <<>>, dirs |-> made.dirs]

\* LockFile::try_lock_with_pid: takes the lock when nobody holds it.
try_lock_with_pid(l, p) ==
    IF l = <<>> THEN [locked |-> TRUE, lock |-> <<p>>] ELSE [locked |-> FALSE, lock |-> l]

\* A drop that leaves the file locked.
MutUnlockKeepsLock(l, p) == l

\* Drop for LockFile: unlocks what this handle had locked.
unlock(l, p) == IF l = <<p>> THEN <<>> ELSE l

\* An open that returns the Cache whether or not it got the lock.
MutOpenWithoutWaiting(locked) == "Opened"

\* Cache::open after try_lock_with_pid: done when locked, else it goes on to
\* the blocking lock_with_pid.
after_try_lock(locked) == IF locked THEN "Opened" ELSE "Waiting"

\* What the last Cache::open returned, or that it is blocked: "open" when
\* try_lock_with_pid settled it, "open_waited" when lock_with_pid did.
CacheResult(op, err) == [op |-> op, err |-> err]

\* The count of an Arc: no value, and the one value open returns.
NoArc == [live |-> 0, cloned |-> 0]
NewArc == [live |-> 1, cloned |-> 0]

\* Cache::open, up to where it returns or blocks.
CacheOpen(p) ==
    /\ pc[p] = "Idle"
    /\ \E fs_ok \in BOOLEAN :
         IF ~fs_ok
         THEN /\ cache_result' = CacheResult("open", FsError(LockPath))
              /\ UNCHANGED <<lock, pc, arcs>>
         ELSE LET tried == try_lock_with_pid(lock, p)
                  then == after_try_lock(tried.locked)
              IN  /\ lock' = tried.lock
                  /\ pc' = [pc EXCEPT ![p] = then]
                  /\ arcs' = [arcs EXCEPT ![p] = IF then = "Opened" THEN NewArc ELSE NoArc]
                  /\ cache_result' =
                        CacheResult(IF then = "Opened" THEN "open" ELSE "waiting", Ok)
    /\ UNCHANGED <<cache_dirs, cache_repos, cache_log>>
    /\ UNCHANGED <<run_vars, tool_vars>>

\* Cache::open, the blocking lock_with_pid: returns once the lock is free.
CacheLock(p) ==
    /\ pc[p] = "Waiting"
    /\ lock = <<>>
    /\ lock' = <<p>>
    /\ pc' = [pc EXCEPT ![p] = "Opened"]
    /\ arcs' = [arcs EXCEPT ![p] = NewArc]
    /\ cache_result' = CacheResult("open_waited", Ok)
    /\ UNCHANGED <<cache_dirs, cache_repos, cache_log>>
    /\ UNCHANGED <<run_vars, tool_vars>>

\* Cache::clone: one more value sharing the Arc.
CacheClone(p) ==
    /\ pc[p] = "Opened"
    /\ arcs[p].cloned < MaxClones
    /\ arcs' = [arcs EXCEPT ![p] = [live |-> @.live + 1, cloned |-> @.cloned + 1]]
    /\ UNCHANGED <<lock, pc, cache_dirs, cache_repos, cache_log, cache_result>>
    /\ UNCHANGED <<run_vars, tool_vars>>

\* Drop of a Cache value; the last one drops Inner and with it the LockFile.
CacheDrop(p) ==
    /\ pc[p] = "Opened"
    /\ IF arcs[p].live = 1
       THEN /\ arcs' = [arcs EXCEPT ![p] = NoArc]
            /\ lock' = unlock(lock, p)
            /\ pc' = [pc EXCEPT ![p] = "Idle"]
       ELSE /\ arcs' = [arcs EXCEPT ![p].live = @ - 1]
            /\ UNCHANGED <<lock, pc>>
    /\ UNCHANGED <<cache_dirs, cache_repos, cache_log, cache_result>>
    /\ UNCHANGED <<run_vars, tool_vars>>

\* The keys Cache::dir is called with directly.
DirKeys == { <<"k">> }

\* The repositories Cache::repo is called for.
Urls == {"U1", "U2"}

\* format!("git\0{url}")
repo_key(url) == <<"git", "NUL", url>>

\* Everything Cache::dir can name under the cache root.
CachePaths ==
    { join(CacheRoot, hash_text(key)) : key \in DirKeys \cup { repo_key(url) : url \in Urls } }

\* The history behind the master of each url, and a commit of the first
\* repository that its master does not reach.
ThemeOld == Commit({ Leaf(<<"config">>, FileModeBlob, 1) }, <<>>, "theme 1")
ThemeNew == Commit({ Leaf(<<"config">>, FileModeBlob, 2) }, <<ThemeOld>>, "theme 2")
ThemeSide == Commit({ Leaf(<<"config">>, FileModeBlob, 3) }, <<ThemeOld>>, "side")
OtherTheme == Commit({ Leaf(<<"other">>, FileModeBlob, 1) }, <<>>, "other theme")

CacheRemote(url) == IF url = "U1" THEN ThemeNew ELSE OtherTheme

\* A commit argument that is no revision at all.
InvalidSpec == [spec |-> "not a revision"]

\* The (url, commit) pairs Cache::repo is called with.
Requests ==
    { <<"U1", ThemeOld>>, <<"U1", ThemeNew>>, <<"U1", ThemeSide>>, <<"U2", OtherTheme>>,
      <<"U1", InvalidSpec>> }

\* Repository::revparse_single(commit): the commit when the repository has
\* it, NotFound when it has not, another error when it is no revision.
revparse_single(repo, commit) ==
    IF commit = InvalidSpec THEN [code |-> "InvalidSpec"]
    ELSE IF \E c \in repo.odb : commit \in Ancestors(c) THEN [code |-> "Ok", object |-> commit]
    ELSE [code |-> "NotFound"]

\* Repository::checkout_tree(object, force)
checkout_tree(repo, commit) == [repo EXCEPT !.workdir = <<commit.tree>>]

\* Cache::repo: the error or the path returned, what is on disk afterwards,
\* the calls it made in order, and whether a fetch of the url's master was
\* carried out (a fetch that fails brings nothing and ends the call with its
\* error).
Cache_repo(dirs, repos, url, commit, fs_ok, net_ok) ==
    LET dir == Cache_dir(dirs, repo_key(url), fs_ok)
    IN  IF dir.err.error # None
        THEN [err |-> [error |-> "Cache", source |-> dir.err], path |-> <<>>,
              dirs |-> dir.dirs, repos |-> repos, fetched |-> FALSE, did |-> <<"dir">>]
        ELSE
        LET at == dir.path[1]
            opened == open_or_init(repos[at])
            first == revparse_single(opened.repo, commit)
            got == fetch(opened.repo, CacheRemote(url), "")
            second == revparse_single(got, commit)
            left(repo) == [repos EXCEPT ![at] = repo]
            looked == <<"dir", "open_or_init", "revparse_single">>
        IN  IF opened.err.error # None
            THEN [err |-> opened.err, path |-> <<>>, dirs |-> dir.dirs, repos |-> repos,
                  fetched |-> FALSE, did |-> <<"dir", "open_or_init">>]
            ELSE IF first.code \notin {"Ok", "NotFound"}
            THEN [err |-> GitError("revparse cached commit"), path |-> <<>>,
                  dirs |-> dir.dirs, repos |-> left(opened.repo), fetched |-> FALSE,
                  did |-> looked]
            ELSE IF first.code = "NotFound" /\ ~net_ok
            THEN [err |-> GitError("fetching repo"), path |-> <<>>, dirs |-> dir.dirs,
                  repos |-> left(opened.repo), fetched |-> FALSE,
                  did |-> looked \o <<"fetch">>]
            ELSE IF first.code = "NotFound" /\ second.code # "Ok"
            THEN [err |-> GitError("revparse cached commit"), path |-> <<>>,
                  dirs |-> dir.dirs, repos |-> left(got), fetched |-> TRUE,
                  did |-> looked \o <<"fetch", "revparse_single">>]
            ELSE
            LET repo == IF first.code = "NotFound" THEN got ELSE opened.repo
                object == IF first.code = "NotFound" THEN second.object ELSE first.object
            IN  [err |-> Ok, path |-> <<at>>, dirs |-> dir.dirs,
                 repos |-> left(set_head_detached(checkout_tree(repo, object), object)),
                 fetched |-> first.code = "NotFound",
                 did |-> looked
                           \o (IF first.code = "NotFound" THEN <<"fetch", "revparse_single">>
                               ELSE <<>>)
                           \o <<"checkout_tree", "set_head_detached">>]

\* One entry of the log of Cache::dir and Cache::repo calls.
CacheCall(op, key, commit, r, fetched, did) ==
    [op |-> op, key |-> key, commit |-> commit, fetched |-> fetched,
     err |-> r.err, path |-> r.path, did |-> did]

\* A Cache::dir call by a process that holds the Cache.
CacheDirCall(p) ==
    /\ pc[p] = "Opened"
    /\ Len(cache_log) < MaxCacheCalls
    /\ \E key \in DirKeys, fs_ok \in BOOLEAN :
         LET r == Cache_dir(cache_dirs, key, fs_ok)
         IN  /\ cache_dirs' = r.dirs
             /\ cache_log' = Append(cache_log, CacheCall("dir", key, <<>>, r, FALSE, <<"dir">>))
    /\ UNCHANGED <<lock, pc, arcs, cache_repos, cache_result>>
    /\ UNCHANGED <<run_vars, tool_vars>>

\* A Cache::repo call, for one of some requests, by a process that holds the
\* Cache.
CacheRepoCallFor(p, requests) ==
    /\ pc[p] = "Opened"
    /\ Len(cache_log) < MaxCacheCalls
    /\ \E rq \in requests, fs_ok \in BOOLEAN, net_ok \in BOOLEAN :
         LET r == Cache_repo(cache_dirs, cache_repos, rq[1], rq[2], fs_ok, net_ok)
         IN  /\ cache_dirs' = r.dirs
             /\ cache_repos' = r.repos
             /\ cache_log' = Append(cache_log,
                                    CacheCall("repo", repo_key(rq[1]), <<rq[2]>>, r,
                                              r.fetched, r.did))
    /\ UNCHANGED <<lock, pc, arcs, cache_result>>
    /\ UNCHANGED <<run_vars, tool_vars>>

CacheRepoCall(p) == CacheRepoCallFor(p, Requests)

\* Nobody has opened the cache and nothing is in it.
CacheClosed ==
    /\ lock = <<>>
    /\ pc = [p \in Procs |-> "Idle"]
    /\ arcs = [p \in Procs |-> NoArc]
    /\ cache_log = <<>>
    /\ cache_result = CacheResult("none", Ok)

CacheCold ==
    /\ cache_dirs = {}
    /\ cache_repos = [path \in CachePaths |-> AbsentRepo]

\* What an earlier process left for the first url when its master was ThemeOld.
WarmRepo ==
    set_head_detached(checkout_tree(fetch(InitRepository, ThemeOld, ""), ThemeOld), ThemeOld)

CacheWarm ==
    LET at == join(CacheRoot, hash_text(repo_key("U1")))
    IN  /\ cache_dirs = {at}
        /\ cache_repos = [path \in CachePaths |-> IF path = at THEN WarmRepo ELSE AbsentRepo]

\* ------------------------------------------------------------ find_root.rs

\* Directories nest at most MaxDepth deep below the filesystem root.
MaxDepth == 2

DirNames == <<"a", "b", "c", "d", "e">>

\* The directory k levels below the filesystem root (<<>>).
Chain(k) == SubSeq(DirNames, 1, k)

\* The directories of the filesystem.
FsDirs == { Chain(k) : k \in 0..MaxDepth }

\* A symbolic link in the filesystem root to the deepest directory.
LinkName == "link"
LinkTarget == Chain(MaxDepth)

\* What std::env::current_dir may give.
Cwds == FsDirs \cup { <<LinkName>> }

\* What a directory may hold under the names .git and CONTENT_DIR.
Disks == [FsDirs -> [git : {"dir", "file", "none"}, content : {"dir", "none"}]]

EnvError(what) == [error |-> "Env", what |-> what]
NoRoot == [error |-> "NoRoot"]

\* Path::canonicalize: the path with its symbolic links resolved.
canonicalize(path) ==
    IF path # <<>> /\ path[1] = LinkName THEN LinkTarget \o Tail(path) ELSE path

\* Path::parent: None for the filesystem root.
parent(path) == IF path = <<>> THEN <<>> ELSE <<SubSeq(path, 1, Len(path) - 1)>>

\* An is_root that is content with a .git directory.
MutIsRootGitOnly(on_disk, path) ==
    IF on_disk[path].git = "dir" THEN Ok ELSE NoRoot

\* is_root: both path/.git and path/CONTENT_DIR are directories.
is_root(on_disk, path) ==
    IF on_disk[path].git = "dir" /\ on_disk[path].content = "dir" THEN Ok ELSE NoRoot

\* find_root up to its loop: the current directory, canonicalized.
FindRootEnter ==
    /\ find_pc = "Start"
    /\ \E env_ok \in BOOLEAN, fs_ok \in BOOLEAN :
         IF ~env_ok
         THEN /\ found' = [err |-> EnvError("current_dir"), path |-> <<>>]
              /\ find_pc' = "Done"
              /\ UNCHANGED current
         ELSE IF ~fs_ok
         THEN /\ found' = [err |-> FsError(cwd), path |-> <<>>]
              /\ find_pc' = "Done"
              /\ UNCHANGED current
         ELSE /\ current' = <<canonicalize(cwd)>>
              /\ find_pc' = "Loop"
              /\ UNCHANGED found
    /\ UNCHANGED <<disk, cwd, text, escaped>>
    /\ UNCHANGED <<run_vars, cache_vars>>

\* One turn of the loop of find_root, or what follows the loop.
FindRootLoop ==
    /\ find_pc = "Loop"
    /\ IF current = <<>>
       THEN /\ found' = [err |-> NoRoot, path |-> <<>>]
            /\ find_pc' = "Done"
            /\ UNCHANGED current
       ELSE LET candidate == current[1]
            IN  IF is_root(disk, candidate).error = None
                THEN /\ found' = [err |-> Ok, path |-> <<candidate>>]
                     /\ find_pc' = "Done"
                     /\ UNCHANGED current
                ELSE /\ current' = parent(candidate)
                     /\ UNCHANGED <<found, find_pc>>
    /\ UNCHANGED <<disk, cwd, text, escaped>>
    /\ UNCHANGED <<run_vars, cache_vars>>

\* find_root has not been called.
FindRootIdle ==
    /\ find_pc = "Start"
    /\ current = <<>>
    /\ found = [err |-> Ok, path |-> <<>>]

\* --------------------------------------------------------------- github.rs

\* Texts have at most MaxLen characters.
MaxLen == 3

CR == "CR"
LF == "LF"

\* The characters of the texts: those the escapers replace, and those their
\* escapes are written with.
Chars == {"%", CR, LF, ":", ",", "0", "2", "3", "5", "A", "C", "D"}

Texts == UNION { [1..n -> Chars] : n \in 0..MaxLen }

\* str::replace of a one-character pattern.
RECURSIVE replace(_, _, _)
replace(s, from, to) ==
    IF s = <<>> THEN <<>>
    ELSE (IF Head(s) = from THEN to ELSE <<Head(s)>>) \o replace(Tail(s), from, to)

escape_property(s) ==
    replace(replace(replace(replace(replace(s,
        "%", <<"%", "2", "5">>),
        CR, <<"%", "0", "D">>),
        LF, <<"%", "0", "A">>),
        ":", <<"%", "3", "A">>),
        ",", <<"%", "2", "C">>)

\* An escape_data that replaces the percent sign last.
MutEscapeDataPercentLast(s) ==
    replace(replace(replace(s,
        CR, <<"%", "0", "D">>),
        LF, <<"%", "0", "A">>),
        "%", <<"%", "2", "5">>)

escape_data(s) ==
    replace(replace(replace(s,
        "%", <<"%", "2", "5">>),
        CR, <<"%", "0", "D">>),
        LF, <<"%", "0", "A">>)

\* PropVec::property: a property value goes through escape_property.
EscapeProperty ==
    /\ escaped.by = "none"
    /\ escaped' = [by |-> "escape_property", out |-> escape_property(text)]
    /\ UNCHANGED <<text, disk, cwd, current, find_pc, found>>
    /\ UNCHANGED <<run_vars, cache_vars>>

\* Reporter::print: the message goes through escape_data.
EscapeData ==
    /\ escaped.by = "none"
    /\ escaped' = [by |-> "escape_data", out |-> escape_data(text)]
    /\ UNCHANGED <<text, disk, cwd, current, find_pc, found>>
    /\ UNCHANGED <<run_vars, cache_vars>>

\* Nothing has been escaped.
NotEscaped == escaped = [by |-> "none", out |-> <<>>]

\* Neither find_root nor the reporter is part of the run.
ToolsIdle ==
    /\ disk = [d \in FsDirs |-> [git |-> "none", content |-> "none"]]
    /\ cwd = <<>>
    /\ FindRootIdle
    /\ text = <<>>
    /\ NotEscaped

Init ==
    /\ \E status \in StatusChoices, eip \in BOOLEAN, erc \in BOOLEAN, sub \in BOOLEAN,
          tree \in RunLocalTrees, incoming \in RunIncomingTrees :
        \E upstream \in UpstreamChoices(LocalCommit(tree)) :
          /\ src_repo = [status |-> status, eip |-> eip, erc |-> erc, submodules |-> sub,
                         head |-> LocalCommit(tree)]
          /\ remotes = Remotes(eip, upstream, OtherCommit(incoming))
    /\ working_repo \in {AbsentRepo, EarlierRepo, BrokenRepo}
    /\ state = "Start"
    /\ src_repo_use = None
    /\ local_head = <<>>
    /\ upstream_head = <<>>
    /\ result = [op |-> "none", err |-> Ok]
    /\ trace = <<>>
    /\ created = <<>>
    /\ last_merge = NoMerge
    /\ changed = <<>>
    /\ calls = 0
    /\ CacheClosed /\ CacheCold
    /\ ToolsIdle

Next == FreshNew \/ CloneSrc \/ FetchUpstream \/ ChangedFiles \/ Merge

Spec == Init /\ [][Next]_vars

\* The working repository once new, clone_src and fetch_upstream have succeeded
\* on what was at build_path, for local head `local` and upstream master `upstream`.
SourceWithUpstreamRepo(prior, local, upstream) ==
    LET opened == open_or_init(prior).repo
        cloned == checkout_head(set_head_master(branch_master(
                      set_head_detached(fetch(opened, local, ""), local), local)))
    IN  fetch(cloned, upstream, "")

TraceToSourceWithUpstream ==
    <<"new", "check_dirty", "identify", "open_or_init", "clone_src", "fetch",
      "fetch_upstream", "fetch">>

\* merge() on its own: every local tree against every incoming tree, from the
\* state a successful fetch_upstream leaves.
InitMerge ==
    /\ \E tree \in LocalTrees, incoming \in IncomingTrees :
          /\ src_repo = [status |-> {}, eip |-> TRUE, erc |-> FALSE, submodules |-> FALSE,
                         head |-> LocalCommit(tree)]
          /\ remotes = Remotes(TRUE, BaseCommit, OtherCommit(incoming))
    /\ working_repo = SourceWithUpstreamRepo(AbsentRepo, src_repo.head, BaseCommit)
    /\ state = "SourceWithUpstream"
    /\ src_repo_use = "Eips"
    /\ local_head = <<src_repo.head>>
    /\ upstream_head = <<BaseCommit>>
    /\ result = [op |-> "fetch_upstream", err |-> Ok]
    /\ trace = TraceToSourceWithUpstream
    /\ created = <<>>
    /\ last_merge = NoMerge
    /\ changed = <<>>
    /\ calls = 0
    /\ CacheClosed /\ CacheCold
    /\ ToolsIdle

NextMerge == Merge

SpecMerge == InitMerge /\ [][NextMerge]_vars

\* The states InitMerge starts from are states of the full run.
InitMergeIsReached ==
    (state = "SourceWithUpstream" /\ calls = 0) =>
        /\ working_repo \in { SourceWithUpstreamRepo(prior, src_repo.head, remotes[src_repo_use]) :
                              prior \in {AbsentRepo, EarlierRepo} }
        /\ local_head = <<src_repo.head>>
        /\ upstream_head = <<remotes[src_repo_use]>>
        /\ result = [op |-> "fetch_upstream", err |-> Ok]
        /\ trace = TraceToSourceWithUpstream
        /\ created = <<>> /\ last_merge = NoMerge /\ changed = <<>>

\* Leaves of the trees in the history of the source: those of the local trees
\* and the other versions of content/a.
HistoryLeaves ==
    LocalLeaves \cup { Leaf(<<CONTENT_DIR, "a">>, FileModeBlob, id) : id \in 1..MaxId }

HistoryTrees == { t \in SubsetsUpTo(HistoryLeaves, 2) : ValidTree(t) }

\* What upstream's master may have on top of a commit.
UpstreamTrees ==
    { { Leaf(<<CONTENT_DIR, "a">>, FileModeBlob, MaxId) },
      { Leaf(<<CONTENT_DIR, "c">>, FileModeBlob, 1), Leaf(<<"other", "a">>, FileModeBlob, 1) } }

\* The source's head on top of the commit it forked from.
ForkCommit(tree) == Commit(tree, <<>>, "fork")
HeadOn(fork, tree) == Commit(tree, <<fork>>, "local")

\* Upstream's master relative to the source's head: the fork point itself, the
\* head itself, ahead of the head, diverged from the fork point, unrelated.
UpstreamOf(fork, head) ==
    { fork, head, OtherCommit({}) }
      \cup { Commit(t, <<head>>, "upstream") : t \in UpstreamTrees }
      \cup { Commit(t, <<fork>>, "upstream") : t \in UpstreamTrees }

\* What the other family's master holds in the runs of the queries.
QueryIncoming == { Leaf(<<CONTENT_DIR, "b">>, FileModeBlob, 1) }

\* changed_files() and merge() in any order, from the state a successful
\* fetch_upstream leaves, over the histories above.
InitQuery ==
    /\ \E base \in HistoryTrees, tree \in HistoryTrees :
          /\ src_repo = [status |-> {}, eip |-> TRUE, erc |-> FALSE, submodules |-> FALSE,
                         head |-> HeadOn(ForkCommit(base), tree)]
          /\ \E upstream \in UpstreamOf(ForkCommit(base), src_repo.head) :
                remotes = Remotes(TRUE, upstream, OtherCommit(QueryIncoming))
    /\ working_repo = SourceWithUpstreamRepo(AbsentRepo, src_repo.head, remotes.Eips)
    /\ state = "SourceWithUpstream"
    /\ src_repo_use = "Eips"
    /\ local_head = <<src_repo.head>>
    /\ upstream_head = <<remotes.Eips>>
    /\ result = [op |-> "fetch_upstream", err |-> Ok]
    /\ trace = TraceToSourceWithUpstream
    /\ created = <<>>
    /\ last_merge = NoMerge
    /\ changed = <<>>
    /\ calls = 0
    /\ CacheClosed /\ CacheCold
    /\ ToolsIdle

NextQuery == ChangedFiles \/ Merge

SpecQuery == InitQuery /\ [][NextQuery]_vars

\* The merge run before it has started, for the runs of the cache alone.
RunIdle ==
    /\ src_repo = [status |-> {}, eip |-> TRUE, erc |-> FALSE, submodules |-> FALSE,
                   head |-> LocalCommit({})]
    /\ remotes = Remotes(TRUE, BaseCommit, OtherCommit({}))
    /\ working_repo = AbsentRepo
    /\ state = "Start"
    /\ src_repo_use = None
    /\ local_head = <<>>
    /\ upstream_head = <<>>
    /\ result = [op |-> "none", err |-> Ok]
    /\ trace = <<>>
    /\ created = <<>>
    /\ last_merge = NoMerge
    /\ changed = <<>>
    /\ calls = 0

\* The processes using the cache, which is empty or holds what an earlier
\* process left.
InitCache ==
    /\ RunIdle
    /\ CacheClosed
    /\ (CacheCold \/ CacheWarm)
    /\ ToolsIdle

NextCache ==
    \E p \in Procs :
        \/ CacheOpen(p)
        \/ CacheLock(p)
        \/ CacheClone(p)
        \/ CacheDrop(p)
        \/ CacheDirCall(p)
        \/ CacheRepoCall(p)

SpecCache == InitCache /\ [][NextCache]_vars

\* The processes when all of them ask for the same theme, which leaves the
\* locking as it is.
OneRequest == {<<"U1", ThemeNew>>}

NextCacheLock ==
    \E p \in Procs :
        \/ CacheOpen(p)
        \/ CacheLock(p)
        \/ CacheClone(p)
        \/ CacheDrop(p)
        \/ CacheDirCall(p)
        \/ CacheRepoCallFor(p, OneRequest)

\* Those processes under the scheduling the lock hand-over rests on: a
\* process blocked in lock_with_pid gets the lock if it is free again and
\* again, and a holder goes on dropping the Cache values it has.
SpecCacheFair ==
    /\ InitCache /\ [][NextCacheLock]_vars
    /\ \A p \in Procs : SF_vars(CacheLock(p))
    /\ \A p \in Procs : WF_vars(CacheDrop(p))

\* find_root from every current directory on every filesystem of the model.
InitFindRoot ==
    /\ RunIdle
    /\ CacheClosed /\ CacheCold
    /\ disk \in Disks
    /\ cwd \in Cwds
    /\ FindRootIdle
    /\ text = <<>>
    /\ NotEscaped

NextFindRoot == FindRootEnter \/ FindRootLoop

\* find_root is a sequential function: it goes on while it has a step to take.
SpecFindRoot == InitFindRoot /\ [][NextFindRoot]_vars /\ WF_vars(NextFindRoot)

\* The escapers on every text of the model.
InitEscape ==
    /\ RunIdle
    /\ CacheClosed /\ CacheCold
    /\ disk = [d \in FsDirs |-> [git |-> "none", content |-> "none"]]
    /\ cwd = <<>>
    /\ FindRootIdle
    /\ text \in Texts
    /\ NotEscaped

NextEscape == EscapeProperty \/ EscapeData

SpecEscape == InitEscape /\ [][NextEscape]_vars

\* ------------------------------------------------------- notions of the claims

\* The path lies at or under the content root.
UnderContentRoot(path) == path # <<>> /\ path[1] = CONTENT_DIR

\* A merge() call has fetched an incoming tree: the trees it worked on.
Fetched == last_merge.called /\ last_merge.other_tree # <<>>
LocalTree == last_merge.master_tree
IncomingTree == last_merge.other_tree[1]

\* Incoming blob leaves at or under the content root.
ContentBlobs(incoming) ==
    { e \in incoming : UnderContentRoot(e.path) /\ KindOf(e.mode) = "Blob" }

\* Incoming entries under the content root the walk cannot take: no UTF-8 name,
\* or neither blob nor tree.
Malformed(incoming) ==
    { e \in incoming : UnderContentRoot(e.path)
                         /\ (e.path[Len(e.path)] = NonUtf8 \/ KindOf(e.mode) # "Blob") }

\* Incoming content-root blobs whose exact path holds something else locally.
Conflicts(local, incoming) ==
    { e \in ContentBlobs(incoming) \ Malformed(incoming) :
        LET o == get_path(local, e.path)
        IN  o.found /\ (o.filemode # e.mode \/ o.kind # "Blob" \/ o.id # e.id) }

NameRank(n) == CHOOSE i \in 1..Len(NameOrder) : NameOrder[i] = n

\* Pre-order of the walk on leaf paths: by name rank, component by component.
RECURSIVE PathBefore(_, _)
PathBefore(p, q) ==
    IF p = <<>> THEN q # <<>>
    ELSE IF q = <<>> THEN FALSE
    ELSE IF Head(p) = Head(q) THEN PathBefore(Tail(p), Tail(q))
    ELSE NameRank(Head(p)) < NameRank(Head(q))

FirstOf(entries) ==
    CHOOSE e \in entries : \A f \in entries : f = e \/ PathBefore(e.path, f.path)

ConflictErrorAt(err, path) ==
    err.error = "UpdateTree" /\ err.what = "conflicting path" /\ err.path = path

MalformedError(err) ==
    err.error = "UpdateTree" /\ err.what \in {"tree entry without name", "unknown blob type"}

\* ------------------------------------------------------------------- claims

\* C1 (as stated): every incoming content-root blob whose path holds a different
\* entry locally makes merge() return the "conflicting path" error naming that
\* very path, and no merged tree is produced.
C1_EveryConflictNamed ==
    Fetched =>
        \A e \in Conflicts(LocalTree, IncomingTree) :
            ConflictErrorAt(result.err, e.path) /\ last_merge.merged_tree = <<>>

\* C1 (amended): when some incoming content-root blob conflicts with the local
\* tree, merge() returns an UpdateTree error and produces no merged tree and no
\* commit; the error is the "conflicting path" error of the first conflicting
\* blob in walk order, unless an unnamed or unknown-kind entry comes earlier in
\* the walk, and then it is that entry's error.
C1_ConflictAborts ==
    (Fetched /\ Conflicts(LocalTree, IncomingTree) # {}) =>
        LET conf == Conflicts(LocalTree, IncomingTree)
            first == FirstOf(conf \cup Malformed(IncomingTree))
        IN  /\ result.err.error = "UpdateTree"
            /\ last_merge.merged_tree = <<>>
            /\ created = <<>>
            /\ HeadCommit(working_repo) = local_head
            /\ first \in conf => ConflictErrorAt(result.err, first.path)
            /\ first \notin conf => MalformedError(result.err)

\* C1 witness: two blobs conflict and merge() named the first of them.
C1_Witness ==
    /\ Fetched
    /\ Cardinality(Conflicts(LocalTree, IncomingTree)) >= 2
    /\ result.err.error = "UpdateTree"
    /\ result.err.what = "conflicting path"

\* C2: after a merge() that failed with a conflict no merge commit exists, HEAD
\* and master are at the prior local head, the local-head tree is what it was
\* and the working copy is the checkout of the prior local head.
C2_ConflictLeavesHead ==
    (result.op = "merge" /\ result.err.error = "UpdateTree"
        /\ result.err.what = "conflicting path") =>
        /\ created = <<>>
        /\ \A c \in working_repo.odb : Len(c.parents) < 2
        /\ working_repo.HEAD = NoHead
        /\ working_repo.branches.master = local_head
        /\ local_head = <<src_repo.head>>
        /\ last_merge.master_tree = src_repo.head.tree
        /\ working_repo.workdir = <<src_repo.head.tree>>

\* C2 witness: a merge() ended in a conflict on the blob id.
C2_Witness ==
    /\ result.op = "merge"
    /\ result.err.error = "UpdateTree"
    /\ result.err.what = "conflicting path"
    /\ result.err.detail = "id"

\* C3: every commit a merge() step creates has exactly two parents: the commit
\* HEAD pointed to just before, then the fetched head of the other family.
C3_MergeCommitParents ==
    [][\A i \in (Len(created) + 1)..Len(created') :
          /\ Len(created'[i].parents) = 2
          /\ <<created'[i].parents[1]>> =
                 (IF i = Len(created) + 1 THEN HeadCommit(working_repo)
                  ELSE <<created'[i - 1]>>)
          /\ created'[i].parents[2] \in { remotes[k] : k \in Families \ {src_repo_use} }]_vars

\* C3 witness: a merge commit exists and a second merge() call has run.
C3_Witness ==
    /\ created # <<>>
    /\ calls = 2
    /\ result.op = "merge"

\* C4: a successful merge() has created one commit per other family, in a
\* chain from the original local head to HEAD, and the tree of HEAD holds the
\* content-root blobs of every other family and the original local content.
C4_OneCommitPerFamily ==
    (result.op = "merge" /\ result.err.error = None) =>
        LET n == Cardinality(Families) - 1
            head == HeadCommit(working_repo)
        IN  /\ Len(created) = n
            /\ \A k \in 1..n :
                  created[k].parents[1] = (IF k = 1 THEN src_repo.head ELSE created[k - 1])
            /\ head = <<created[n]>>
            /\ \A f \in Families \ {src_repo_use} :
                  \A e \in ContentBlobs(remotes[f].tree) :
                      \E m \in head[1].tree : m.path = e.path /\ m.id = e.id
            /\ \A e \in src_repo.head.tree :
                  \E m \in head[1].tree : m.path = e.path /\ m.id = e.id

\* C4 witness: a merge() succeeded and brought a new blob next to local content.
C4_Witness ==
    /\ result.op = "merge"
    /\ result.err.error = None
    /\ src_repo.head.tree # {}
    /\ Cardinality(HeadCommit(working_repo)[1].tree) > Cardinality(src_repo.head.tree)

\* C5: merging an incoming tree with no entry at or under the content root
\* raises no error of the tree merge, gives exactly the local-head tree, and
\* the first merge() call returns Ok.
C5_MergeIdentity ==
    (Fetched /\ \A e \in IncomingTree : ~UnderContentRoot(e.path)) =>
        /\ last_merge.merged_tree = <<LocalTree>>
        /\ LocalTree = src_repo.head.tree
        /\ result.err.error # "UpdateTree"
        /\ calls = 1 => /\ result.err.error = None
                        /\ HeadCommit(working_repo)[1].tree = src_repo.head.tree

\* C5 witness: a non-empty incoming tree without content root was merged into a
\* non-empty local tree.
C5_Witness ==
    /\ Fetched
    /\ IncomingTree # {}
    /\ \A e \in IncomingTree : ~UnderContentRoot(e.path)
    /\ LocalTree # {}
    /\ result.err.error = None

\* The merged tree is the union: all of the local tree, and every incoming
\* content-root blob at its path with its id.
IsUnion(merged, local, incoming) ==
    /\ local \subseteq merged
    /\ \A e \in ContentBlobs(incoming) : \E m \in merged : m.path = e.path /\ m.id = e.id

\* C6 (as stated): when every incoming content-root blob is at a path absent
\* from the local tree, no conflict is raised and the merged tree is the union.
C6_UnionWhenAbsent ==
    (Fetched /\ \A e \in ContentBlobs(IncomingTree) : ~get_path(LocalTree, e.path).found) =>
        /\ result.err.error # "UpdateTree"
        /\ last_merge.merged_tree # <<>>
        /\ IsUnion(last_merge.merged_tree[1], LocalTree, IncomingTree)

\* C6 (amended): when every incoming entry under the content root is a UTF-8
\* named blob (or a directory), at a path absent from the local tree and not
\* beneath a local blob, no conflict is raised and the merged tree is the union.
C6_UnionWhenAbsentAndFree ==
    (/\ Fetched
     /\ Malformed(IncomingTree) = {}
     /\ \A e \in ContentBlobs(IncomingTree) :
           /\ ~get_path(LocalTree, e.path).found
           /\ \A o \in LocalTree : ~IsProperPrefix(o.path, e.path)) =>
        /\ result.err.error # "UpdateTree"
        /\ last_merge.merged_tree # <<>>
        /\ IsUnion(last_merge.merged_tree[1], LocalTree, IncomingTree)

\* C6 witness: two new content blobs were merged into a non-empty local tree.
C6_Witness ==
    /\ Fetched
    /\ LocalTree # {}
    /\ Malformed(IncomingTree) = {}
    /\ Cardinality(ContentBlobs(IncomingTree)) = 2
    /\ \A e \in ContentBlobs(IncomingTree) : ~get_path(LocalTree, e.path).found
    /\ last_merge.merged_tree # <<>>
    /\ Cardinality(last_merge.merged_tree[1]) = Cardinality(LocalTree) + 2

\* C7: the callback goes past the filter exactly for the root entry named
\* CONTENT_DIR and for entries whose parent path starts with CONTENT_DIR/, the
\* walk never enters another subtree, and the merged tree differs from the
\* local-head tree only at paths under the content root.
C7_ContentRootFilter ==
    Fetched =>
        /\ \A i \in 1..Len(last_merge.visits) :
              LET v == last_merge.visits[i]
              IN  /\ (v.r.res # "Skip") <=>
                         \/ (v.a = <<>> /\ v.entry.raw = CONTENT_DIR)
                         \/ (v.a # <<>> /\ v.a[1] = CONTENT_DIR)
                  /\ v.a = <<>> \/ v.a[1] = CONTENT_DIR
        /\ last_merge.merged_tree # <<>> =>
              \A e \in (last_merge.merged_tree[1] \ LocalTree)
                          \cup (LocalTree \ last_merge.merged_tree[1]) :
                  UnderContentRoot(e.path)

\* C7 witness: the walk skipped a root entry outside the content root, took a
\* blob under it, and the local tree has an entry outside the content root.
C7_Witness ==
    /\ Fetched
    /\ \E i \in 1..Len(last_merge.visits) : last_merge.visits[i].r.res = "Skip"
    /\ \E e \in LocalTree : ~UnderContentRoot(e.path)
    /\ last_merge.merged_tree # <<>>
    /\ last_merge.merged_tree[1] # LocalTree

\* The operations of the typestate objects, as they appear in the trace.
Operations == {"new", "clone_src", "fetch_upstream", "changed_files", "merge"}
Ops == SelectSeq(trace, LAMBDA x : x \in Operations)

\* C8: the operations run in the order new (check_dirty, then identify),
\* clone_src, fetch_upstream, then changed_files and merge; new, clone_src and
\* fetch_upstream run at most once; changed_files and merge run only once
\* fetch_upstream has succeeded; and after an error no typestate is produced.
C8_TypestateOrder ==
    /\ [](/\ \A i \in 1..Len(Ops) :
               /\ Ops[i] = "new" <=> i = 1
               /\ Ops[i] = "clone_src" <=> i = 2
               /\ Ops[i] = "fetch_upstream" <=> i = 3
          /\ Len(trace) >= 2 => trace[2] = "check_dirty"
          /\ Len(trace) >= 3 => trace[3] = "identify"
          /\ Len(Ops) >= 2 => src_repo_use # None
          /\ Len(Ops) >= 3 => local_head # <<>>
          /\ Len(Ops) >= 4 => (upstream_head # <<>> /\ state = "SourceWithUpstream"))
    /\ [][result.err.error # None => state' = state]_vars

\* C8 witness: the whole sequence ran, merge after changed_files.
C8_Witness ==
    Ops = <<"new", "clone_src", "fetch_upstream", "changed_files", "merge">>

\* C9: when check_dirty fails, or identify fails after it, Fresh::new returns
\* that error and the build path has been neither opened nor initialised and
\* nothing has been fetched; check_dirty ran first, identify second.
C9_SourceCheckedFirst ==
    [][(state = "Start" /\ state' # "Start"
          /\ (check_dirty(src_repo.status).error # None
                \/ identify(src_repo.eip, src_repo.erc).error # None)) =>
            /\ result'.err.error =
                   (IF check_dirty(src_repo.status).error # None THEN "Dirty" ELSE "Identify")
            /\ working_repo' = working_repo
            /\ ~working_repo'.opened
            /\ state' = "Failed"
            /\ trace' \in {<<"new", "check_dirty">>, <<"new", "check_dirty", "identify">>}]_vars

\* C9 witness: Fresh::new failed on identify while nothing was at build_path.
C9_Witness ==
    /\ result.op = "new"
    /\ result.err.error = "Identify"
    /\ working_repo.exists = "absent"

\* C10: identify gives Eips exactly for (EIP resolves, ERC does not), Ercs
\* exactly for the reverse, and otherwise the Identify error carrying the two
\* resolution results; the source repository is left as it was.
C10_IdentifyTable ==
    /\ [](Len(trace) >= 3 =>
            /\ (src_repo.eip /\ ~src_repo.erc) <=> src_repo_use = "Eips"
            /\ (~src_repo.eip /\ src_repo.erc) <=> src_repo_use = "Ercs"
            /\ result.op = "new" =>
                  /\ (src_repo.eip <=> src_repo.erc) <=> result.err.error = "Identify"
                  /\ result.err.error = "Identify" =>
                        (result.err.eips = src_repo.eip /\ result.err.ercs = src_repo.erc))
    /\ [][src_repo' = src_repo]_vars

\* C10 witness: neither fingerprint resolved and identify said so.
C10_Witness ==
    /\ result.op = "new"
    /\ result.err.error = "Identify"
    /\ ~result.err.eips /\ ~result.err.ercs

\* The path is the build directory at the root of the working copy or lies
\* inside it.
UnderBuildDir(path) ==
    /\ IsPrefix(BUILD_DIR, path)
    /\ (Len(path) = Len(BUILD_DIR) \/ path[Len(BUILD_DIR) + 1] = "/")

\* Fresh::new has returned, so check_dirty has run on the source's status.
CheckDirtyRan == Len(trace) >= 2 /\ trace[2] = "check_dirty"
CheckDirtyFailed == CheckDirtyRan /\ Len(trace) = 2 /\ result.err.error = "Dirty"

\* C11: check_dirty fails with Dirty whenever the status has an entry whose
\* path is not underneath BUILD_DIR.
C11_DirtyOutsideBuildDir ==
    (CheckDirtyRan /\ \E x \in src_repo.status : ~UnderBuildDir(x.path)) => CheckDirtyFailed

\* C12: check_dirty returns Ok whenever every status entry is a path
\* underneath BUILD_DIR (the directory itself or anything nested inside it).
C12_CleanInsideBuildDir ==
    (CheckDirtyRan /\ \A x \in src_repo.status : UnderBuildDir(x.path)) => ~CheckDirtyFailed

\* The leaf entries of a tree at a path (none when the path is absent or a
\* directory).
EntriesAt(tree, path) == { e \in tree : e.path = path }

\* The paths at which two trees differ in what they hold.
DifferingPaths(old, new) ==
    { p \in { e.path : e \in old \cup new } : EntriesAt(old, p) # EntriesAt(new, p) }

\* The common ancestors of the two recorded heads, and the best of them.
CommonAncestors == Ancestors(local_head[1]) \cap Ancestors(upstream_head[1])
BestCommonAncestors ==
    { b \in CommonAncestors : \A d \in CommonAncestors : d = b \/ b \notin Ancestors(d) }

ChangedFilesReturned == result.op = "changed_files" /\ result.err.error = None

\* C13: changed_files returns exactly the paths whose entry differs between
\* the tree of the merge base of local_head and upstream_head and the tree of
\* local_head; a path unchanged since the merge base is not returned, whatever
\* upstream did to it; the result is empty when local_head is upstream_head
\* or an ancestor of it.
C13_ChangedSinceMergeBase ==
    result.op = "changed_files" =>
        /\ (result.err.error = None) <=> (CommonAncestors # {})
        /\ ChangedFilesReturned =>
              /\ changed # <<>>
              /\ \E b \in BestCommonAncestors :
                    changed[1] = DifferingPaths(b.tree, local_head[1].tree)
              /\ local_head[1] \in Ancestors(upstream_head[1]) => changed[1] = {}

\* C13 witness: upstream diverged from the fork point and changed a path the
\* local head left alone; the local head changed one path and kept another.
C13_Witness ==
    /\ ChangedFilesReturned
    /\ local_head[1] \notin Ancestors(upstream_head[1])
    /\ upstream_head[1] \notin Ancestors(local_head[1])
    /\ \E b \in BestCommonAncestors :
          /\ \E e \in b.tree : e \in local_head[1].tree /\ e \notin upstream_head[1].tree
                                /\ e.path \notin changed[1]
          /\ \E e \in local_head[1].tree : e \notin b.tree /\ e.path \in changed[1]

\* The number of changed_files() calls made so far.
ChangedFilesCalls == Len(SelectSeq(trace, LAMBDA x : x = "changed_files"))

\* C14: a changed_files() call leaves HEAD, the branches, the object store and
\* the rest of the working repository as they were, and the recorded
\* local_head and upstream_head too; and it returns what the earlier calls
\* returned, whatever merge() did in between.
C14_ChangedFilesIsPure ==
    [][trace' = Append(trace, "changed_files") =>
          /\ working_repo' = working_repo
          /\ local_head' = local_head
          /\ upstream_head' = upstream_head
          /\ created' = created
          /\ ChangedFilesCalls >= 1 => changed' = changed]_vars

\* C14 witness: changed_files() returned a non-empty list, merge() succeeded,
\* and changed_files() has been called again.
C14_Witness ==
    /\ result.op = "changed_files"
    /\ ChangedFilesCalls >= 2
    /\ created # <<>>
    /\ HeadCommit(working_repo) = <<created[1]>>
    /\ changed # <<>> /\ changed[1] # {}

\* C15: after merge() has returned Ok the branch master-other, which the
\* fetch of the other family had created, is gone; it was deleted after the
\* merge commit and the forced checkout, which are in place.
C15_ScratchBranchDeleted ==
    (result.op = "merge" /\ result.err.error = None) =>
        /\ working_repo.branches.master_other = <<>>
        /\ last_merge.did =
              <<"fetch", "walk", "create_updated", "commit", "checkout_head", "find_branch",
                "delete">>
        /\ created # <<>>
        /\ HeadCommit(working_repo) = <<created[Len(created)]>>
        /\ working_repo.workdir = <<created[Len(created)].tree>>
        /\ working_repo.FETCH_HEAD = <<created[Len(created)].parents[2]>>

\* C15 witness: merge() returned Ok after fetching the other family and
\* committing a tree that differs from the local one.
C15_Witness ==
    /\ result.op = "merge" /\ result.err.error = None
    /\ working_repo.FETCH_HEAD = <<remotes.Ercs>>
    /\ created # <<>> /\ created[1].tree # local_head[1].tree

\* The processes that hold an open Cache.
Holders == { p \in Procs : pc[p] = "Opened" }

\* C16: at most one process at a time holds an open Cache, and it is the one
\* that has the lock; no other process has a Cache value to call Cache::dir
\* or Cache::repo on, so no two processes are inside the cache root at once.
C16_CacheMutualExclusion ==
    /\ Cardinality(Holders) <= 1
    /\ \A p \in Holders : lock = <<p>>
    /\ \A p \in Procs \ Holders : arcs[p].live = 0

\* C16 witness: one process holds the Cache, with a clone of it, and has
\* used it, while another is blocked in open.
C16_Witness ==
    /\ Len(cache_log) >= 1
    /\ \E p, q \in Procs : pc[p] = "Opened" /\ arcs[p].live = 2 /\ pc[q] = "Waiting"

GotDir(call) ==
    IF call.op = "dir" THEN call.err.error = None ELSE call.err.error # "Cache"

\* C18: Cache::dir returns the cache root joined with the digest of the key,
\* the same for equal keys whenever it is called; once a call
\* for a key has succeeded every later call for it succeeds too; and the
\* directory a successful call returned exists.
C18_DirDeterministicIdempotent ==
    \A i \in 1..Len(cache_log) :
        LET call == cache_log[i]
        IN  /\ call.op = "dir" => (call.path # <<>>) <=> (call.err.error = None)
            /\ GotDir(call) => join(CacheRoot, hash_text(call.key)) \in cache_dirs
            /\ (call.op = "dir" /\ GotDir(call)) =>
                  call.path = <<join(CacheRoot, hash_text(call.key))>>
            /\ \A j \in (i + 1)..Len(cache_log) :
                  (GotDir(call) /\ cache_log[j].key = call.key) =>
                      /\ GotDir(cache_log[j])
                      /\ (call.path # <<>> /\ cache_log[j].path # <<>>) =>
                            cache_log[j].path = call.path

\* C18 witness: Cache::dir was called twice with the same key; both calls
\* succeeded and the directory they returned exists.
C18_Witness ==
    /\ Len(cache_log) = 2
    /\ cache_log[1].op = "dir" /\ cache_log[2].op = "dir"
    /\ cache_log[1].key = cache_log[2].key
    /\ cache_log[1].err.error = None /\ cache_log[2].err.error = None
    /\ cache_log[2].path[1] \in cache_dirs

\* Two logged Cache::repo calls for the same url and commit, the first
\* earlier than the second.
SameRequest(i, j) ==
    /\ i < j
    /\ cache_log[i].op = "repo" /\ cache_log[j].op = "repo"
    /\ cache_log[i].key = cache_log[j].key
    /\ cache_log[i].commit = cache_log[j].commit

\* C19 as stated: of two Cache::repo calls for the same url and commit, at
\* most one uses the network.
C19_AtMostOneFetch ==
    \A i, j \in 1..Len(cache_log) :
        SameRequest(i, j) => ~(cache_log[i].fetched /\ cache_log[j].fetched)

\* C19 amended: once a Cache::repo call has returned Ok, every later call for
\* the same url and commit returns Ok with the same path without using the
\* network.
C19_NoFetchAfterSuccess ==
    \A i, j \in 1..Len(cache_log) :
        (SameRequest(i, j) /\ cache_log[i].err.error = None) =>
            /\ ~cache_log[j].fetched
            /\ cache_log[j].err.error = None
            /\ cache_log[j].path = cache_log[i].path

\* C19 witness: the first call fetched and returned Ok, the second returned
\* Ok from what was cached.
C19_Witness ==
    /\ Len(cache_log) = 2
    /\ SameRequest(1, 2)
    /\ cache_log[1].fetched /\ cache_log[1].err.error = None
    /\ ~cache_log[2].fetched /\ cache_log[2].err.error = None

\* The repository at a path holds the checkout of a commit: HEAD detached at
\* it and the working tree its tree.
HoldsCheckout(path, commit) ==
    /\ cache_repos[path].HEAD = [symbolic |-> FALSE, at |-> <<commit>>]
    /\ cache_repos[path].workdir = <<commit.tree>>

\* C20: once Cache::repo(url, c) has returned a path, the repository there
\* holds the checkout of c, and goes on holding it whatever Cache::repo calls
\* follow.
C20_PinnedCheckout ==
    \A i \in 1..Len(cache_log) :
        (cache_log[i].op = "repo" /\ cache_log[i].err.error = None) =>
            HoldsCheckout(cache_log[i].path[1], cache_log[i].commit[1])

\* C21: on a source with submodules no SourceOnly is ever produced, so that
\* fetch_upstream, changed_files and merge never run; and a clone_src that
\* got as far as the checkout has panicked instead of returning.
C21_SubmodulesPanic ==
    src_repo.submodules =>
        /\ state \notin {"SourceOnly", "SourceWithUpstream"}
        /\ local_head = <<>>
        /\ \A i \in 1..Len(trace) : trace[i] \notin {"fetch_upstream", "changed_files", "merge"}
        /\ (result.op = "clone_src" /\ result.err.error # "Git") =>
              /\ state = "Panicked"
              /\ result.err.error = "panic"
              /\ working_repo.workdir = <<src_repo.head.tree>>

\* C21 witness: clone_src checked out a source with submodules and panicked.
C21_Witness ==
    /\ src_repo.submodules
    /\ state = "Panicked"
    /\ working_repo.workdir = <<src_repo.head.tree>>
    /\ working_repo.HEAD = NoHead

\* C22: when merge() has built a merged tree, every incoming content-root
\* blob is in it at its full path with the incoming object id and the
\* incoming file mode.
C22_IncomingModeKept ==
    (Fetched /\ last_merge.merged_tree # <<>>) =>
        \A e \in ContentBlobs(IncomingTree) :
            Leaf(e.path, e.mode, e.id) \in last_merge.merged_tree[1]

\* How often a call occurs among the calls an operation made.
Count(did, what) == Cardinality({ i \in 1..Len(did) : did[i] = what })

\* A step is a Cache::repo call that got as far as looking the commit up.
RepoLookup ==
    /\ Len(cache_log') = Len(cache_log) + 1
    /\ cache_log'[Len(cache_log')].op = "repo"
    /\ Count(cache_log'[Len(cache_log')].did, "revparse_single") >= 1

\* C23: Cache::repo fetches exactly when the first lookup of the commit is
\* NotFound, then once, and looks the commit up once more after a fetch that
\* worked; a call that returns an error (commit still unresolved, first
\* lookup failed otherwise, fetch failed) leaves HEAD and the working tree of
\* the cached repository as they were, and a call that returns Ok leaves the
\* checkout of the commit.
C23_FetchOnNotFoundOnly ==
    [][RepoLookup =>
         LET call == cache_log'[Len(cache_log')]
             at == join(CacheRoot, hash_text(call.key))
             before == cache_repos[at]
             after == cache_repos'[at]
             first == revparse_single(before, call.commit[1])
             unresolved == \A c \in after.odb : call.commit[1] \notin Ancestors(c)
         IN  /\ Count(call.did, "fetch") = (IF first.code = "NotFound" THEN 1 ELSE 0)
             /\ Count(call.did, "revparse_single") = (IF call.fetched THEN 2 ELSE 1)
             /\ call.fetched => Count(call.did, "fetch") = 1
             /\ (first.code = "InvalidSpec" \/ (first.code = "NotFound" /\ ~call.fetched)
                   \/ (call.fetched /\ unresolved)) <=> (call.err.error # None)
             /\ (call.err.error # None) =>
                   /\ call.err.error = "Git"
                   /\ after.HEAD = before.HEAD
                   /\ after.workdir = before.workdir
                   /\ after.branches = before.branches
                   /\ Count(call.did, "checkout_tree") = 0
                   /\ Count(call.did, "set_head_detached") = 0
             /\ (call.err.error = None) =>
                   /\ after.HEAD = [symbolic |-> FALSE, at |-> call.commit]
                   /\ after.workdir = <<call.commit[1].tree>>]_vars

\* C23 witness: a call fetched and still could not resolve the commit, in a
\* cached repository that held a checkout.
C23_Witness ==
    /\ cache_log # <<>>
    /\ LET call == cache_log[Len(cache_log)]
       IN  /\ call.op = "repo"
           /\ call.fetched
           /\ call.err = GitError("revparse cached commit")
           /\ cache_repos[join(CacheRoot, hash_text(call.key))].HEAD =
                  [symbolic |-> FALSE, at |-> <<ThemeOld>>]

\* The error the callback sets for a malformed entry: it names the parent path
\* of an entry without name, and the path of an entry of unknown kind.
MalformedErrorAt(err, e) ==
    /\ err.error = "UpdateTree"
    /\ IF e.path[Len(e.path)] = NonUtf8
       THEN err.what = "tree entry without name" /\ err.path = SubSeq(e.path, 1, Len(e.path) - 1)
       ELSE err.what = "unknown blob type" /\ err.path = e.path

\* merge() has left the repository where the local head is: no merged tree, no
\* commit, HEAD and master at the local head, the working tree its checkout.
NothingMerged ==
    /\ last_merge.merged_tree = <<>>
    /\ created = <<>>
    /\ working_repo.HEAD = NoHead
    /\ working_repo.branches.master = local_head
    /\ working_repo.workdir = <<local_head[1].tree>>
    /\ \A c \in working_repo.odb : Len(c.parents) < 2

\* C24 (as stated): when an incoming entry under the content root has no
\* resolvable name or is neither blob nor tree, merge() returns the UpdateTree
\* error of such an entry and nothing is merged.
C24_MalformedNamed ==
    (Fetched /\ Malformed(IncomingTree) # {}) =>
        /\ \E e \in Malformed(IncomingTree) : MalformedErrorAt(result.err, e)
        /\ NothingMerged

\* C24 (amended): in that case merge() returns an UpdateTree error and nothing
\* is merged; the error is that of the first entry in walk order that is
\* malformed or in conflict with the local tree.
C24_MalformedAborts ==
    (Fetched /\ Malformed(IncomingTree) # {}) =>
        LET bad == Malformed(IncomingTree)
            first == FirstOf(bad \cup Conflicts(LocalTree, IncomingTree))
        IN  /\ result.err.error = "UpdateTree"
            /\ last_merge.visits[Len(last_merge.visits)].r.res = "Abort"
            /\ NothingMerged
            /\ first \in bad => MalformedErrorAt(result.err, first)
            /\ first \notin bad => ConflictErrorAt(result.err, first.path)

\* C24 witness: a gitlink under the content root, after a blob that was taken,
\* ended merge() with its error.
C24_Witness ==
    /\ Fetched
    /\ Cardinality(ContentBlobs(IncomingTree)) = 1
    /\ \E e \in Malformed(IncomingTree) :
          /\ e.mode = FileModeCommit
          /\ MalformedErrorAt(result.err, e)
          /\ \A b \in ContentBlobs(IncomingTree) : PathBefore(b.path, e.path)
    /\ NothingMerged

\* What clone_src establishes: HEAD is the symbolic ref to master, master is
\* at the commit fetched from the source's HEAD, the working tree is its
\* checkout and local_head records it.
LocalHeadEstablished ==
    /\ working_repo.HEAD = NoHead
    /\ working_repo.branches.master = <<src_repo.head>>
    /\ working_repo.workdir = <<src_repo.head.tree>>
    /\ local_head = <<src_repo.head>>

\* C25: once clone_src has returned Ok the local head is established as
\* above, whatever an earlier run left; and fetch_upstream, failing or not,
\* leaves HEAD, master, the working tree and local_head alone and records
\* the master it fetched as upstream_head.
C25_LocalHeadEstablished ==
    /\ []((state = "SourceOnly" \/ (state = "SourceWithUpstream" /\ calls = 0)) =>
             LocalHeadEstablished)
    /\ [][state = "SourceOnly" /\ state' # "SourceOnly" =>
            /\ working_repo'.HEAD = working_repo.HEAD
            /\ working_repo'.branches = working_repo.branches
            /\ working_repo'.workdir = working_repo.workdir
            /\ local_head' = local_head
            /\ (state' = "SourceWithUpstream") <=> (upstream_head' = <<remotes[src_repo_use]>>)
            /\ (state' # "SourceWithUpstream") => upstream_head' = <<>>]_vars

\* C25 witness: clone_src has replaced the master of an earlier run and
\* fetch_upstream has recorded an upstream head that is another commit.
C25_Witness ==
    /\ state = "SourceWithUpstream"
    /\ calls = 0
    /\ OldCommit \in working_repo.odb
    /\ LocalHeadEstablished
    /\ upstream_head # local_head
    /\ working_repo.FETCH_HEAD = upstream_head

\* C26: when every incoming entry under the content root is a blob the local
\* tree already has at that path with the same mode, kind and id, the merged
\* tree is the local-head tree itself.
C26_NothingNewNothingChanged ==
    (/\ Fetched
     /\ Malformed(IncomingTree) = {}
     /\ \A e \in ContentBlobs(IncomingTree) : e \in LocalTree) =>
        last_merge.merged_tree = <<LocalTree>>

\* C27 (as stated): whenever merge() has returned, with Ok or with an error,
\* the working repository has no branch master-other.
C27_NoScratchBranchEver ==
    result.op = "merge" => working_repo.branches.master_other = <<>>

\* C27 (amended): after a merge() that returned Ok there is no branch
\* master-other; after one that failed once its fetch was done the branch is
\* there, at the fetched master of the other family; and the branch is never
\* anywhere else.
C27_ScratchBranchAfterFailure ==
    result.op = "merge" =>
        LET others == { <<remotes[k]>> : k \in Families \ {src_repo_use} }
        IN  /\ result.err.error = None => working_repo.branches.master_other = <<>>
            /\ (result.err.error # None /\ Fetched) =>
                  working_repo.branches.master_other \in others
            /\ working_repo.branches.master_other \in others \cup {<<>>}
            /\ working_repo.branches.master_other # <<>> =>
                  working_repo.branches.master_other[1] \in working_repo.odb

\* C27 witness: a merge() that failed after its fetch left master-other
\* behind, and a later merge() whose fetch failed has left it there.
C27_Witness ==
    /\ result.op = "merge"
    /\ calls = 2
    /\ result.err = GitError("fetching repo")
    /\ working_repo.branches.master_other = <<remotes.Ercs>>
    /\ created = <<>>

\* The local tree has a blob where the incoming tree has a directory, or the
\* other way round, under the content root.
FileAgainstDirectory(local, incoming) ==
    \E o \in local, e \in ContentBlobs(incoming) :
        IsProperPrefix(o.path, e.path) \/ IsProperPrefix(e.path, o.path)

\* C28: a merged tree holds every blob of the local-head tree at its path
\* with its object id, and so do the commit and the working tree of a merge()
\* that returned Ok; where the incoming tree has a directory at a local file
\* or a file at a local directory, no merged tree is built at all.
C28_LocalContentKept ==
    Fetched =>
        /\ last_merge.merged_tree # <<>> =>
              \A o \in LocalTree :
                  \E m \in last_merge.merged_tree[1] : m.path = o.path /\ m.id = o.id
        /\ result.err.error = None =>
              /\ last_merge.merged_tree # <<>>
              /\ HeadCommit(working_repo)[1].tree = last_merge.merged_tree[1]
              /\ working_repo.workdir = last_merge.merged_tree
        /\ FileAgainstDirectory(LocalTree, IncomingTree) =>
              (last_merge.merged_tree = <<>> /\ result.err.error # None)

\* C28 witness: a merge() returned Ok on a local tree of two blobs, one of
\* which the incoming tree had too, next to a new one.
C28_Witness ==
    /\ Fetched
    /\ result.err.error = None
    /\ Cardinality(LocalTree) = 2
    /\ \E e \in ContentBlobs(IncomingTree) : \E o \in LocalTree : o.path = e.path
    /\ \E e \in ContentBlobs(IncomingTree) : \A o \in LocalTree : o.path # e.path

\* The ancestors of a directory, itself included, by their depth.
AncestorsOf(path) == { SubSeq(path, 1, k) : k \in 0..Len(path) }

\* The ancestors of a directory that hold a .git directory and a CONTENT_DIR
\* directory.
Qualifying(path) ==
    { d \in AncestorsOf(path) : disk[d].git = "dir" /\ disk[d].content = "dir" }

\* The nearest of them: the deepest one.
Nearest(path) ==
    CHOOSE d \in Qualifying(path) : \A e \in Qualifying(path) : Len(e) <= Len(d)

\* C29: find_root terminates; when the current directory could be read and
\* canonicalized it returns the nearest qualifying ancestor of the canonical
\* current directory, and NoRoot exactly when no ancestor qualifies.
C29_FindRootNearest ==
    /\ <>(find_pc = "Done")
    /\ [](find_pc = "Done" =>
            LET canon == canonicalize(cwd)
            IN  /\ found.err.error \in {None, "NoRoot", "Env", "Fs"}
                /\ found.err.error = None =>
                      /\ Qualifying(canon) # {}
                      /\ found.path = <<Nearest(canon)>>
                /\ found.err.error = "NoRoot" => (Qualifying(canon) = {} /\ found.path = <<>>)
                /\ found.err.error \in {"Env", "Fs"} => (current = <<>> /\ found.path = <<>>))
    /\ [][find_pc = "Loop" /\ find_pc' = "Done" =>
            (found'.err.error = "NoRoot") <=> (Qualifying(canonicalize(cwd)) = {})]_vars

\* C29 witness: from a current directory reached through a symbolic link,
\* find_root went past a directory with a .git file and past the qualifying
\* filesystem root's child, and returned the nearest qualifying ancestor.
C29_Witness ==
    /\ find_pc = "Done"
    /\ cwd = <<LinkName>>
    /\ found.err.error = None
    /\ found.path = <<Chain(1)>>
    /\ Qualifying(canonicalize(cwd)) = {Chain(0), Chain(1)}
    /\ disk[LinkTarget].git = "file"

\* The escapes an escaper writes, with the character each stands for.
Escapes(by) ==
    { <<<<"2", "5">>, "%">>, <<<<"0", "D">>, CR>>, <<<<"0", "A">>, LF>> }
      \cup (IF by = "escape_property"
            THEN { <<<<"3", "A">>, ":">>, <<<<"2", "C">>, ",">> }
            ELSE {})

\* Percent-decoding: a percent sign followed by the two digits of a known
\* escape gives the character; everything else stands for itself.
RECURSIVE percent_decode(_, _)
percent_decode(s, by) ==
    IF s = <<>> THEN <<>>
    ELSE IF Head(s) = "%" /\ Len(s) >= 3 /\ \E x \in Escapes(by) : x[1] = SubSeq(s, 2, 3)
    THEN LET x == CHOOSE y \in Escapes(by) : y[1] = SubSeq(s, 2, 3)
         IN  <<x[2]>> \o percent_decode(SubSeq(s, 4, Len(s)), by)
    ELSE <<Head(s)>> \o percent_decode(Tail(s), by)

\* The texts of at most two characters.
ShortTexts == UNION { [1..n -> Chars] : n \in 0..2 }

\* The characters that would break a workflow command where the output goes.
Breaking(by) == IF by = "escape_property" THEN {CR, LF, ":", ","} ELSE {CR, LF}

\* C30: the output of an escaper holds none of the characters it has to
\* remove, every percent sign in it starts one of the escapes it writes, and
\* percent-decoding it gives the input back (so no two inputs share an
\* output).
C30_EscapersReversible ==
    escaped.by # "none" =>
        LET out == escaped.out
        IN  /\ \A i \in 1..Len(out) : out[i] \notin Breaking(escaped.by)
            /\ \A i \in 1..Len(out) :
                  out[i] = "%" =>
                      /\ i + 2 <= Len(out)
                      /\ \E x \in Escapes(escaped.by) : x[1] = SubSeq(out, i + 1, i + 2)
            /\ percent_decode(out, escaped.by) = text
            /\ percent_decode(out, "escape_property") = text
            /\ \A other \in ShortTexts \ {text} :
                  /\ escaped.by = "escape_data" => escape_data(other) # out
                  /\ escaped.by = "escape_property" => escape_property(other) # out

\* C30 witness: a text that already reads like an escaped newline went
\* through escape_data.
C30_Witness ==
    /\ escaped.by = "escape_data"
    /\ text = <<"%", "0", "A">>
    /\ escaped.out = <<"%", "2", "5", "0", "A">>
    /\ escaped.out # escape_data(<<LF>>)

====
